---- MODULE Spec2Model ----
(***************************************************************************)
(* Model of the summarization extension: the background service worker     *)
(* (background.ts), the API client (apiclient.ts), the injected page UI    *)
(* (content.tsx) and the extension popup (popup.tsx), communicating        *)
(* through chrome.tabs.sendMessage and chrome.storage.local.               *)
(*                                                                         *)
(* Strings that the code inspects character by character (selected text,   *)
(* summaries, raw error messages) are sequences of one-character strings.  *)
(* Strings that the code only passes around (fixed user-facing messages,   *)
(* message types, error codes, API keys) are TLA+ strings.                 *)
(* An optional value (a storage key that may be absent, a React state that *)
(* may be null, an undefined field) is a sequence of length 0 or 1.        *)
(*                                                                         *)
(* Every await of the code is a suspension point: each action below is one *)
(* run-to-next-await segment of a handler.  chrome.storage.local serves    *)
(* the operations in the order they are issued, so a storage operation     *)
(* takes effect in the segment that issues it; the callback of a get runs  *)
(* in a later segment.                                                     *)
(***************************************************************************)
EXTENDS Integers, Sequences, FiniteSets, TLC

(***************************************************************************)
(* Bounds of the model                                                     *)
(***************************************************************************)
\* number of Requests (context-menu triggers) in one run
MaxReq == 2
\* length of the longest selection
MaxTextLen == 130
\* number of runtime messages the background listener receives in one run
MaxMsg == 2

(***************************************************************************)
(* consts.tsx                                                              *)
(***************************************************************************)
MAX_PREVIEW_LENGTH == 100
ELLIPSIS == <<".", ".", ".">>

\* CONSTANTS.ERROR_MESSAGES: the six fixed user-facing messages.  The code
\* only passes them around and compares them, so each is represented by the
\* name of its key (the Japanese text is not ASCII).
MSG_API_KEY_MISSING == "ERROR_MESSAGES.API_KEY_MISSING"
MSG_SUMMARY_EMPTY == "ERROR_MESSAGES.SUMMARY_EMPTY"
MSG_API_ERROR == "ERROR_MESSAGES.API_ERROR"
MSG_API_KEY_INVALID == "ERROR_MESSAGES.API_KEY_INVALID"
MSG_QUOTA_ERROR == "ERROR_MESSAGES.QUOTA_ERROR"
MSG_NETWORK_ERROR == "ERROR_MESSAGES.NETWORK_ERROR"

\* the summary field of the loading message (background.ts, summarizeText)
LOADING_SUMMARY == "loading..."

(***************************************************************************)
(* Optional values                                                         *)
(***************************************************************************)
None == <<>>
Some(v) == <<v>>
IsSome(o) == o # <<>>
The(o) == o[1]

(***************************************************************************)
(* String functions of JavaScript used by the code                         *)
(***************************************************************************)
\* String.prototype.includes
Includes(s, pat) ==
    \E i \in 0..(Len(s) - Len(pat)) :
        \A j \in 1..Len(pat) : s[i + j] = pat[j]

\* the characters String.prototype.trim removes (those the model uses)
WhiteSpace == {" ", "\t", "\n"}

\* a blank test without the trim: s === ""
TrimIsEmpty_NoTrim(s) == s = <<>>

\* s.trim() === ""
TrimIsEmpty(s) == \A i \in 1..Len(s) : s[i] \in WhiteSpace

\* a substring that takes the last n characters, as slice(-n) does
Substring0_FromEnd(s, n) ==
    SubSeq(s, IF n < Len(s) THEN Len(s) - n + 1 ELSE 1, Len(s))

\* String.prototype.substring(0, n)
Substring0(s, n) == SubSeq(s, 1, IF n < Len(s) THEN n ELSE Len(s))

\* a truncateText that also cuts a text of exactly the preview length
truncateText_CutsAtLimit(text) ==
    IF Len(text) >= MAX_PREVIEW_LENGTH
    THEN Substring0(text, MAX_PREVIEW_LENGTH) \o ELLIPSIS
    ELSE text

\* background.ts truncateText
truncateText(text) ==
    IF Len(text) > MAX_PREVIEW_LENGTH
    THEN Substring0(text, MAX_PREVIEW_LENGTH) \o ELLIPSIS
    ELSE text

(***************************************************************************)
(* apiclient.ts                                                            *)
(***************************************************************************)
KW_API_KEY_INVALID ==
    <<"A", "P", "I", "_", "K", "E", "Y", "_", "I", "N", "V", "A", "L", "I", "D">>
KW_QUOTA == <<"q", "u", "o", "t", "a">>
KW_NETWORK == <<"n", "e", "t", "w", "o", "r", "k">>
KW_TIMEOUT == <<"t", "i", "m", "e", "o", "u", "t">>

\* the message of the Error generateContent throws for an empty response
EMPTY_RESPONSE_MESSAGE ==
    <<"A", "P", "I", " ", "r", "e", "s", "p", "o", "n", "s", "e", " ", "i", "s",
      " ", "e", "m", "p", "t", "y", " ", "o", "r", " ", "i", "n", "v", "a", "l",
      "i", "d">>

\* an extractErrorCode that looks for "quota" before "API_KEY_INVALID"
extractErrorCode_QuotaFirst(message) ==
    IF Includes(message, KW_QUOTA) THEN Some("QUOTA_EXCEEDED")
    ELSE IF Includes(message, KW_API_KEY_INVALID) THEN Some("API_KEY_INVALID")
    ELSE IF Includes(message, KW_NETWORK) THEN Some("NETWORK_ERROR")
    ELSE IF Includes(message, KW_TIMEOUT) THEN Some("TIMEOUT_ERROR")
    ELSE None

\* ApiClient.extractErrorCode: the code is optional (undefined when no
\* keyword matches)
extractErrorCode(message) ==
    IF Includes(message, KW_API_KEY_INVALID) THEN Some("API_KEY_INVALID")
    ELSE IF Includes(message, KW_QUOTA) THEN Some("QUOTA_EXCEEDED")
    ELSE IF Includes(message, KW_NETWORK) THEN Some("NETWORK_ERROR")
    ELSE IF Includes(message, KW_TIMEOUT) THEN Some("TIMEOUT_ERROR")
    ELSE None

\* A thrown value: an Error object [isError |-> TRUE, name, message] or any
\* other value [isError |-> FALSE].
ErrorObject(name, message) ==
    [isError |-> TRUE, name |-> name, message |-> message]
NonErrorThrowable == [isError |-> FALSE]

\* a handleApiError that takes any thrown value for an Error without message
handleApiError_AssumesError(error) ==
    IF error.isError
    THEN [name |-> error.name, message |-> error.message,
          code |-> extractErrorCode(error.message)]
    ELSE [name |-> "Error", message |-> <<>>, code |-> None]

\* ApiClient.handleApiError.  The stack and status fields of ApiError are
\* never read by any caller and are left out.
handleApiError(error) ==
    IF error.isError
    THEN [name |-> error.name, message |-> error.message,
          code |-> extractErrorCode(error.message)]
    ELSE [name |-> "UnknownError",
          message |-> <<"A", "n", " ", "u", "n", "k", "n", "o", "w", "n", " ",
                        "e", "r", "r", "o", "r", " ", "o", "c", "c", "u", "r",
                        "r", "e", "d">>,
          code |-> Some("UNKNOWN_ERROR")]

\* What this.ai.models.generateContent does: it returns a result whose text
\* is an optional string, or it throws.
RemoteReturns(text) == [kind |-> "returns", text |-> text]
RemoteThrows(error) == [kind |-> "throws", error |-> error]

\* a client that rejects only a missing text and returns the empty string
generateContent_AcceptsEmptyString(outcome) ==
    IF outcome.kind = "returns"
    THEN IF outcome.text = None
         THEN [ok |-> FALSE,
               error |-> handleApiError(
                             ErrorObject("Error", EMPTY_RESPONSE_MESSAGE))]
         ELSE [ok |-> TRUE, value |-> The(outcome.text)]
    ELSE [ok |-> FALSE, error |-> handleApiError(outcome.error)]

\* ApiClient.generateContent applied to the outcome of the remote call:
\* [ok |-> TRUE, value] when it returns, [ok |-> FALSE, error] when it throws
\* (the error is the ApiError built by handleApiError).  !result.text holds
\* for a missing text and for the empty string.
generateContent(outcome) ==
    IF outcome.kind = "returns"
    THEN IF outcome.text = None \/ The(outcome.text) = <<>>
         THEN [ok |-> FALSE,
               error |-> handleApiError(
                             ErrorObject("Error", EMPTY_RESPONSE_MESSAGE))]
         ELSE [ok |-> TRUE, value |-> The(outcome.text)]
    ELSE [ok |-> FALSE, error |-> handleApiError(outcome.error)]

(***************************************************************************)
(* background.ts: pure parts                                               *)
(***************************************************************************)
CONTEXT_MENU_ID == "summarizeText"

\* the catch block of summarizeText: the user-facing message chosen for a
\* caught value e = [name, message, code]
catchErrorMessage(e) ==
    IF e.code = Some("API_KEY_INVALID") THEN MSG_API_KEY_INVALID
    ELSE IF e.code = Some("QUOTA_EXCEEDED") THEN MSG_QUOTA_ERROR
    ELSE IF e.code = Some("NETWORK_ERROR") THEN MSG_NETWORK_ERROR
    ELSE IF e.message # <<>>
         THEN IF Includes(e.message, KW_API_KEY_INVALID)
              THEN MSG_API_KEY_INVALID
              ELSE IF Includes(e.message, KW_QUOTA) THEN MSG_QUOTA_ERROR
              ELSE IF Includes(e.message, KW_NETWORK) THEN MSG_NETWORK_ERROR
              ELSE MSG_API_ERROR
         ELSE MSG_API_ERROR

\* the TypeError raised by calling chrome.action.openPopup where the browser
\* does not expose it; it has no code field
OpenPopupTypeError ==
    [name |-> "TypeError",
     message |-> <<"c", "h", "r", "o", "m", "e", ".", "a", "c", "t", "i", "o",
                   "n", ".", "o", "p", "e", "n", "P", "o", "p", "u", "p", " ",
                   "i", "s", " ", "n", "o", "t", " ", "a", " ", "f", "u", "n",
                   "c", "t", "i", "o", "n">>,
     code |-> None]

\* the messages of MessageType (consts.tsx)
LoadingMessage(originalText) ==
    [type |-> "loading", summary |-> LOADING_SUMMARY,
     originalText |-> originalText]
ErrorMessage(type, message) == [type |-> type, message |-> message]
SummaryMessage(summary, originalText) ==
    [type |-> "SUMMARY_COMPLETE", summary |-> summary,
     originalText |-> originalText]

TerminalTypes == {"SUMMARY_COMPLETE", "API_KEY_MISSING", "SUMMARY_EMPTY"}

(***************************************************************************)
(* Inputs                                                                  *)
(***************************************************************************)
Hello == <<"h", "e", "l", "l", "o">>
\* a selection one character longer than the preview length
LongText == [i \in 1..(MAX_PREVIEW_LENGTH + 1) |-> "x"]
Texts == {Hello, LongText}

\* selections of the lengths around the preview length, made of characters
\* that change with the position
TextChars == <<"a", "b", "c">>
TextOfLen(n) == [i \in 1..n |-> TextChars[(i % 3) + 1]]
PreviewLengths ==
    {1, MAX_PREVIEW_LENGTH - 1, MAX_PREVIEW_LENGTH, MAX_PREVIEW_LENGTH + 1,
     MAX_PREVIEW_LENGTH + 3, MaxTextLen}
PreviewSelections == {None} \cup {Some(TextOfLen(n)) : n \in PreviewLengths}

\* info.selectionText is optional and may be the empty string
SelectionTexts == {None, Some(<<>>)} \cup {Some(t) : t \in Texts}
MenuItemIds == {CONTEXT_MENU_ID, "otherMenuItem"}

\* the values the user types into the API key field of the popup
ApiKeyInputs == {"", "key1"}

SummaryA == <<"S", "u", "m", "A">>
Blank == <<" ", " ">>
\* raw messages of the errors thrown by the remote call
RawQuota == <<"q", "u", "o", "t", "a", " ", "e", "x", "c", "e", "e", "d", "e", "d">>
RawOther == <<"b", "o", "o", "m">>
RawMessages == {RawQuota, RawOther}

RemoteOutcomes ==
    {RemoteReturns(t) : t \in {None, Some(<<>>), Some(Blank), Some(SummaryA)}}
    \cup {RemoteThrows(ErrorObject("Error", m)) : m \in RawMessages}
    \cup {RemoteThrows(NonErrorThrowable)}

\* further raw messages: each keyword alone, two keywords at once, a
\* keyword in another case, and the empty message
RawKeyInvalid ==
    <<"A", "P", "I", "_", "K", "E", "Y", "_", "I", "N", "V", "A", "L", "I",
    "D">>
RawNetwork ==
    <<"n", "e", "t", "w", "o", "r", "k", " ", "d", "o", "w", "n">>
RawTimeout ==
    <<"t", "i", "m", "e", "o", "u", "t">>
RawNetworkQuota ==
    <<"n", "e", "t", "w", "o", "r", "k", " ", "q", "u", "o", "t", "a">>
RawQuotaKeyInvalid ==
    <<"q", "u", "o", "t", "a", " ", "A", "P", "I", "_", "K", "E", "Y", "_",
    "I", "N", "V", "A", "L", "I", "D">>
RawUpperQuota ==
    <<"Q", "u", "o", "t", "a", " ", "e", "x", "c", "e", "e", "d", "e", "d">>
\* the first example of the documentation of extractErrorCode
RawKeyIsInvalid ==
    <<"A", "P", "I", " ", "k", "e", "y", " ", "i", "s", " ", "i", "n", "v", "a",
    "l", "i", "d">>
RawNetworkTimeout ==
    <<"n", "e", "t", "w", "o", "r", "k", " ", "t", "i", "m", "e", "o", "u",
    "t">>
RawEmpty == <<>>
ErrorRawMessages ==
    RawMessages \cup {RawKeyInvalid, RawNetwork, RawTimeout, RawNetworkQuota,
                      RawQuotaKeyInvalid, RawUpperQuota, RawNetworkTimeout,
                      RawKeyIsInvalid, RawEmpty}

\* the characters of a credential
CredentialChars(k) == IF k = "key1" THEN <<"k", "e", "y", "1">> ELSE <<>>

\* a raw message of the remote endpoint that repeats the credential
RawEchoesKey ==
    <<"b", "a", "d", " ", "k", "e", "y", ":", " ", "k", "e", "y", "1">>

\* the outcomes of the remote call used to exercise the error taxonomy
ErrorOutcomes ==
    RemoteOutcomes
    \cup {RemoteThrows(ErrorObject("Error", m)) : m \in ErrorRawMessages}
    \cup {RemoteThrows(ErrorObject("TypeError", RawNetwork))}

(***************************************************************************)
(* State                                                                   *)
(***************************************************************************)
VARIABLES
    storage,        \* chrome.storage.local: userApiKey, popupResult, popupError
    req,            \* the invocations of summarizeText: position and locals
    page,           \* the content script of the tab (content.tsx)
    popup,          \* the extension popup (popup.tsx)
    popupRequests,  \* invocations whose chrome.action.openPopup() is pending
    openPopupDefined, \* the browser exposes chrome.action.openPopup
    now,            \* Date.now()
    events,         \* history: the messages each invocation passed to
                    \*   sendMessageToContent, whether chrome.tabs.sendMessage
                    \*   was called, and the result of the send
    remoteCalls,    \* history: number of remote calls of each invocation
    writes,         \* history: the fallback payloads written, with writer
    shown,          \* history: the fallback payloads the popup displayed
    messages,       \* the runtime messages the background listener received,
                    \*   each with the position of the testApiKey it started
    responses       \* history: the statuses passed to sendResponse for
                    \*   each message received

vars == <<storage, req, page, popup, popupRequests, openPopupDefined, now,
          events, remoteCalls, writes, shown, messages, responses>>

\* the variables of the message listener and of testApiKey
listenerVars == <<messages, responses>>

Requests == 1..MaxReq

\* the locals of an invocation: menuItemId is the id of the menu item whose
\* click started it (history); userApiKey is None until the credential read
\* resolves and then holds the value read, itself optional (None when the key
\* is absent from the storage); remote records what the remote call of the
\* invocation did (history, None until the call settles)
IdleRequest ==
    [pc |-> "idle", menuItemId |-> "", text |-> <<>>, tabOk |-> FALSE,
     userApiKey |-> None,
     summary |-> <<>>, errorMessage |-> "", sent |-> FALSE, remote |-> None]

\* the popup: status, the React states apiKey, popupResult and popupError,
\* the values captured by the pending chrome.storage.local.get calls (got),
\* and the invocation whose openPopup() opened it (cause, history)
ClosedPopup ==
    [status |-> "closed", apiKey |-> "", popupResult |-> None,
     popupError |-> None,
     got |-> [userApiKey |-> None, popupResult |-> None, popupError |-> None],
     cause |-> None]

\* initializeContentScript mounts ContentScript with all three states null
MountedPage ==
    [loaded |-> TRUE, summaryData |-> None, errorMessage |-> None,
     loadingData |-> None]
NoPage ==
    [loaded |-> FALSE, summaryData |-> None, errorMessage |-> None,
     loadingData |-> None]

Init ==
    /\ storage \in {[userApiKey |-> k, popupResult |-> None,
                     popupError |-> None] : k \in {None, Some("key1")}}
    /\ req = [r \in Requests |-> IdleRequest]
    /\ page \in {MountedPage, NoPage}
    /\ popup = ClosedPopup
    /\ popupRequests = {}
    /\ openPopupDefined \in BOOLEAN
    /\ now = 1
    /\ events = [r \in Requests |-> <<>>]
    /\ remoteCalls = [r \in Requests |-> 0]
    /\ writes = <<>>
    /\ shown = <<>>
    /\ messages = <<>>
    /\ responses = <<>>

(***************************************************************************)
(* content.tsx                                                             *)
(***************************************************************************)
\* a handleMessage that sets its own state and does not clear the others
handleMessage_KeepsOtherStates(p, message) ==
    IF message.type = "SUMMARY_COMPLETE"
    THEN [p EXCEPT !.summaryData =
                       Some([summary |-> message.summary,
                             originalText |-> message.originalText])]
    ELSE IF message.type \in {"API_KEY_MISSING", "SUMMARY_EMPTY"}
    THEN [p EXCEPT !.errorMessage = Some(message.message)]
    ELSE IF message.type = "loading"
    THEN [p EXCEPT !.loadingData =
                       Some([originalText |-> message.originalText])]
    ELSE p

\* ContentScript.handleMessage: the React state after receiving message
handleMessage(p, message) ==
    IF message.type = "SUMMARY_COMPLETE"
    THEN [p EXCEPT !.summaryData =
                       Some([summary |-> message.summary,
                             originalText |-> message.originalText]),
                   !.errorMessage = None, !.loadingData = None]
    ELSE IF message.type = "API_KEY_MISSING"
    THEN [p EXCEPT !.errorMessage = Some(message.message),
                   !.summaryData = None, !.loadingData = None]
    ELSE IF message.type = "SUMMARY_EMPTY"
    THEN [p EXCEPT !.errorMessage = Some(message.message),
                   !.summaryData = None, !.loadingData = None]
    ELSE IF message.type = "loading"
    THEN [p EXCEPT !.loadingData =
                       Some([originalText |-> message.originalText]),
                   !.errorMessage = None, !.summaryData = None]
    ELSE p

\* the panel ContentScript renders: the error panel has priority over the
\* loading panel, which has priority over the result panel
PageRendered(p) ==
    IF ~p.loaded THEN "none"
    ELSE IF IsSome(p.errorMessage) /\ The(p.errorMessage) # "" THEN "error"
    ELSE IF IsSome(p.loadingData) THEN "loading"
    ELSE IF IsSome(p.summaryData) THEN "result"
    ELSE "none"

\* onClose of the panel rendered: its state is set to null
ClosePanel ==
    /\ PageRendered(page) # "none"
    /\ page' = IF PageRendered(page) = "error"
               THEN [page EXCEPT !.errorMessage = None]
               ELSE IF PageRendered(page) = "loading"
               THEN [page EXCEPT !.loadingData = None]
               ELSE [page EXCEPT !.summaryData = None]
    /\ UNCHANGED <<storage, req, popup, popupRequests, openPopupDefined, now,
                   events, remoteCalls, writes, shown>>
    /\ UNCHANGED listenerVars

\* the content script is injected into the tab's page (a page load)
ContentScriptLoads ==
    /\ ~page.loaded
    /\ page' = MountedPage
    /\ UNCHANGED <<storage, req, popup, popupRequests, openPopupDefined, now,
                   events, remoteCalls, writes, shown>>
    /\ UNCHANGED listenerVars

\* the page is closed or navigated away
PageUnloads ==
    /\ page.loaded
    /\ page' = NoPage
    /\ UNCHANGED <<storage, req, popup, popupRequests, openPopupDefined, now,
                   events, remoteCalls, writes, shown>>
    /\ UNCHANGED listenerVars

(***************************************************************************)
(* background.ts: sendMessageToContent and the fallback writers            *)
(***************************************************************************)
\* if (tab && tab.id): chrome.tabs.sendMessage is called only for a tab
\* with an id
AttemptsSend(tabOk) == tabOk

\* a sendMessageToContent that does not test the tab
sendMessageToContent_IgnoresTab(tabOk, p) == p.loaded

\* sendMessageToContent: chrome.tabs.sendMessage is attempted only for a tab
\* with an id, and it resolves only when the tab has a receiving content
\* script; its rejection is caught.  The value is the boolean returned.
sendMessageToContent(tabOk, p) == tabOk /\ p.loaded

\* a page that ignores a message while it displays something
PageAfterSend_FirstWins(tabOk, p, message) ==
    IF sendMessageToContent(tabOk, p) /\ p.summaryData = None
          /\ p.errorMessage = None /\ p.loadingData = None
    THEN handleMessage(p, message) ELSE p

\* the page after sendMessageToContent(tab, message)
PageAfterSend(tabOk, p, message) ==
    IF sendMessageToContent(tabOk, p) THEN handleMessage(p, message) ELSE p

\* the payloads of the two slots
ResultPayload(summary, originalText, timestamp) ==
    [summary |-> summary, originalText |-> originalText,
     timestamp |-> timestamp]
ErrorPayload(message, timestamp) ==
    [message |-> message, timestamp |-> timestamp]

\* a showResultInPopup that stores its two arguments in each other's field
showResultInPopup_SwapsFields(st, summary, originalText, timestamp) ==
    [st EXCEPT !.popupResult =
                   Some(ResultPayload(originalText, summary, timestamp))]

\* showResultInPopup, where chrome.action.openPopup exists: the storage after
\* chrome.storage.local.set
showResultInPopup(st, summary, originalText, timestamp) ==
    [st EXCEPT !.popupResult =
                   Some(ResultPayload(summary, originalText, timestamp))]

\* a showErrorInPopup that stores the credential along with the message
showErrorInPopup_StoresCredential(st, errorMessage, timestamp) ==
    [st EXCEPT !.popupError =
                   Some([message |-> errorMessage, timestamp |-> timestamp,
                         userApiKey |-> st.userApiKey])]

\* a showErrorInPopup that keeps an unread payload
showErrorInPopup_KeepsUnread(st, errorMessage, timestamp) ==
    IF IsSome(st.popupError) THEN st
    ELSE [st EXCEPT !.popupError = Some(ErrorPayload(errorMessage, timestamp))]

\* showErrorInPopup, where chrome.action.openPopup exists
showErrorInPopup(st, errorMessage, timestamp) ==
    [st EXCEPT !.popupError = Some(ErrorPayload(errorMessage, timestamp))]

(***************************************************************************)
(* background.ts: summarizeText, one action per run-to-next-await segment  *)
(*                                                                         *)
(* pc of an invocation:                                                    *)
(*   idle          not started                                             *)
(*   readKey       awaiting chrome.storage.local.get (loading was sent)    *)
(*   missingSent   awaiting the send of API_KEY_MISSING                    *)
(*   requesting    awaiting ai.summarizeText                               *)
(*   emptySent     awaiting the send of SUMMARY_EMPTY (inside try)         *)
(*   completeSent  awaiting the send of SUMMARY_COMPLETE (inside try)      *)
(*   errorSent     awaiting the send of the catch block                    *)
(*   done          returned                                                *)
(*   rejected      an exception escaped: the promise is rejected           *)
(***************************************************************************)
\* an invocation that has returned (pc "done") or thrown (pc "rejected"):
\* its locals are gone; the inputs are kept for reference
Returned(q, pc) ==
    [IdleRequest EXCEPT !.pc = pc, !.menuItemId = q.menuItemId,
                        !.text = q.text, !.tabOk = q.tabOk,
                        !.userApiKey = q.userApiKey]

\* the entry appended to the history of an invocation by a send
Sent(r, message) ==
    [msg |-> message,
     attempted |-> AttemptsSend(req[r].tabOk),
     delivered |-> sendMessageToContent(req[r].tabOk, page)]

\* a credential check that only recognises the empty string
KeyMissing_EmptyStringOnly(v) == v # None /\ The(v) = ""

\* !userApiKey for the value read from the storage
KeyMissing(v) == v = None \/ The(v) = ""

\* a listener whose failed loading send falls back to the error slot
onClicked_LoadingFallsBack(menuItemId, selectionText, tabOk) ==
    /\ \E r \in Requests : req[r].pc = "idle"
    /\ LET r == CHOOSE i \in Requests :
                    /\ req[i].pc = "idle"
                    /\ \A j \in Requests : req[j].pc = "idle" => i <= j
       IN IF /\ menuItemId = CONTEXT_MENU_ID
             /\ IsSome(selectionText)
             /\ The(selectionText) # <<>>
          THEN LET text == The(selectionText)
                   message == LoadingMessage(truncateText(text))
                   d == sendMessageToContent(tabOk, page)
               IN /\ req' = [req EXCEPT ![r] =
                                [IdleRequest EXCEPT !.pc = "readKey",
                                                    !.menuItemId = menuItemId,
                                                    !.text = text,
                                                    !.tabOk = tabOk,
                                                    !.sent = d]]
                  /\ events' = [events EXCEPT ![r] =
                                   <<[msg |-> message,
                                      attempted |-> AttemptsSend(tabOk),
                                      delivered |-> d]>>]
                  /\ page' = PageAfterSend(tabOk, page, message)
                  /\ storage' = IF d THEN storage
                                ELSE showErrorInPopup(storage, LOADING_SUMMARY,
                                                      now)
                  /\ UNCHANGED <<popup, popupRequests, openPopupDefined, now,
                                 remoteCalls, writes, shown>>
          ELSE UNCHANGED vars
    /\ UNCHANGED listenerVars

\* a listener that starts an invocation for a click on any menu item
onClicked_AnyMenuItem(menuItemId, selectionText, tabOk) ==
    /\ \E r \in Requests : req[r].pc = "idle"
    /\ LET r == CHOOSE i \in Requests :
                    /\ req[i].pc = "idle"
                    /\ \A j \in Requests : req[j].pc = "idle" => i <= j
       IN IF /\ IsSome(selectionText)
             /\ The(selectionText) # <<>>
          THEN LET text == The(selectionText)
                   message == LoadingMessage(truncateText(text))
                   d == sendMessageToContent(tabOk, page)
               IN /\ req' = [req EXCEPT ![r] =
                                [IdleRequest EXCEPT !.pc = "readKey",
                                                    !.menuItemId = menuItemId,
                                                    !.text = text,
                                                    !.tabOk = tabOk,
                                                    !.sent = d]]
                  /\ events' = [events EXCEPT ![r] =
                                   <<[msg |-> message,
                                      attempted |-> AttemptsSend(tabOk),
                                      delivered |-> d]>>]
                  /\ page' = PageAfterSend(tabOk, page, message)
                  /\ UNCHANGED <<storage, popup, popupRequests,
                                 openPopupDefined, now, remoteCalls, writes,
                                 shown>>
          ELSE UNCHANGED vars
    /\ UNCHANGED listenerVars

\* chrome.contextMenus.onClicked listener, up to the first await of
\* summarizeText: the loading message is sent
onClicked(menuItemId, selectionText, tabOk) ==
    /\ \E r \in Requests : req[r].pc = "idle"
    /\ LET r == CHOOSE i \in Requests :
                    /\ req[i].pc = "idle"
                    /\ \A j \in Requests : req[j].pc = "idle" => i <= j
       IN IF /\ menuItemId = CONTEXT_MENU_ID
             /\ IsSome(selectionText)
             /\ The(selectionText) # <<>>
          THEN LET text == The(selectionText)
                   message == LoadingMessage(truncateText(text))
                   d == sendMessageToContent(tabOk, page)
               IN /\ req' = [req EXCEPT ![r] =
                                [IdleRequest EXCEPT !.pc = "readKey",
                                                    !.menuItemId = menuItemId,
                                                    !.text = text,
                                                    !.tabOk = tabOk,
                                                    !.sent = d]]
                  /\ events' = [events EXCEPT ![r] =
                                   <<[msg |-> message,
                                      attempted |-> AttemptsSend(tabOk),
                                      delivered |-> d]>>]
                  /\ page' = PageAfterSend(tabOk, page, message)
                  /\ UNCHANGED <<storage, popup, popupRequests,
                                 openPopupDefined, now, remoteCalls, writes,
                                 shown>>
          ELSE UNCHANGED vars
    /\ UNCHANGED listenerVars

\* the credential read rejects: it is outside the try block, so the
\* exception escapes summarizeText
ReadKeyRejects(r) ==
    /\ req[r].pc = "readKey"
    /\ req' = [req EXCEPT ![r] = Returned(@, "rejected")]
    /\ UNCHANGED <<storage, page, popup, popupRequests, openPopupDefined, now,
                   events, remoteCalls, writes, shown>>
    /\ UNCHANGED listenerVars

\* a credential read that is served from the value the first invocation
\* read, once there is one
ReadKey_UsesCachedKey(r) ==
    /\ req[r].pc = "readKey"
    /\ LET userApiKey == IF IsSome(req[1].userApiKey)
                         THEN The(req[1].userApiKey)
                         ELSE storage.userApiKey
       IN IF KeyMissing(userApiKey)
          THEN /\ events' = [events EXCEPT ![r] =
                     Append(@, Sent(r, ErrorMessage("API_KEY_MISSING",
                                                    MSG_API_KEY_MISSING)))]
               /\ page' = PageAfterSend(req[r].tabOk, page,
                     ErrorMessage("API_KEY_MISSING", MSG_API_KEY_MISSING))
               /\ req' = [req EXCEPT
                     ![r].pc = "missingSent",
                     ![r].userApiKey = Some(userApiKey),
                     ![r].sent = sendMessageToContent(req[r].tabOk, page)]
               /\ UNCHANGED remoteCalls
          ELSE /\ req' = [req EXCEPT ![r].pc = "requesting",
                                     ![r].userApiKey = Some(userApiKey)]
               /\ remoteCalls' = [remoteCalls EXCEPT ![r] = @ + 1]
               /\ UNCHANGED <<page, events>>
    /\ UNCHANGED <<storage, popup, popupRequests, openPopupDefined, now,
                   writes, shown>>
    /\ UNCHANGED listenerVars

\* the credential read resolves: without a key API_KEY_MISSING is sent,
\* with a key the ApiClient is built and the remote call is issued
ReadKey(r) ==
    /\ req[r].pc = "readKey"
    /\ IF KeyMissing(storage.userApiKey)
       THEN /\ events' = [events EXCEPT ![r] =
                  Append(@, Sent(r, ErrorMessage("API_KEY_MISSING",
                                                 MSG_API_KEY_MISSING)))]
            /\ page' = PageAfterSend(req[r].tabOk, page,
                  ErrorMessage("API_KEY_MISSING", MSG_API_KEY_MISSING))
            /\ req' = [req EXCEPT
                  ![r].pc = "missingSent",
                  ![r].userApiKey = Some(storage.userApiKey),
                  ![r].sent = sendMessageToContent(req[r].tabOk, page)]
            /\ UNCHANGED remoteCalls
       ELSE /\ req' = [req EXCEPT ![r].pc = "requesting",
                                  ![r].userApiKey = Some(storage.userApiKey)]
            /\ remoteCalls' = [remoteCalls EXCEPT ![r] = @ + 1]
            /\ UNCHANGED <<page, events>>
    /\ UNCHANGED <<storage, popup, popupRequests, openPopupDefined, now,
                   writes, shown>>
    /\ UNCHANGED listenerVars

\* the call of showErrorInPopup(errorMessage) by invocation r where
\* chrome.action.openPopup exists: the popup is requested, then the slot is
\* written
CallShowErrorInPopup(r, errorMessage) ==
    /\ popupRequests' = popupRequests \cup {r}
    /\ storage' = showErrorInPopup(storage, errorMessage, now)
    /\ writes' = Append(writes, [by |-> r, slot |-> "popupError",
                                 payload |-> ErrorPayload(errorMessage, now)])
    /\ now' = now + 1

\* the call of showResultInPopup(summary, originalText) by invocation r
CallShowResultInPopup(r, summary, originalText) ==
    /\ popupRequests' = popupRequests \cup {r}
    /\ storage' = showResultInPopup(storage, summary, originalText, now)
    /\ writes' = Append(writes,
                        [by |-> r, slot |-> "popupResult",
                         payload |-> ResultPayload(summary, originalText, now)])
    /\ now' = now + 1

\* a fallback taken whatever the send returned
NeedsFallback_Always(sent) == TRUE

\* if (!errorSent) / if (!successSent): the fallback is taken only when
\* sendMessageToContent returned false
NeedsFallback(sent) == ~sent

\* after the send of API_KEY_MISSING (outside the try block)
AfterMissingSend(r) ==
    /\ req[r].pc = "missingSent"
    /\ IF ~NeedsFallback(req[r].sent)
       THEN /\ req' = [req EXCEPT ![r] = Returned(@, "done")]
            /\ UNCHANGED <<storage, popupRequests, now, writes>>
       ELSE IF openPopupDefined
       THEN /\ CallShowErrorInPopup(r, MSG_API_KEY_MISSING)
            /\ req' = [req EXCEPT ![r] = Returned(@, "done")]
       ELSE \* openPopup throws before the write; nothing catches it
            /\ req' = [req EXCEPT ![r] = Returned(@, "rejected")]
            /\ UNCHANGED <<storage, popupRequests, now, writes>>
    /\ UNCHANGED <<page, popup, openPopupDefined, events, remoteCalls, shown>>
    /\ UNCHANGED listenerVars

\* a catch block that reports its failures as API_KEY_MISSING
CatchMessageType_KeyMissing == "API_KEY_MISSING"

\* the messageType of the catch block: it is never reassigned
CatchMessageType == "SUMMARY_EMPTY"

\* the catch block of summarizeText for the caught value e: the failure
\* message is sent with type SUMMARY_EMPTY (remote is the history of the
\* remote call)
CatchBlock(r, e, remote) ==
    /\ events' = [events EXCEPT ![r] =
           Append(@, Sent(r, ErrorMessage(CatchMessageType,
                                          catchErrorMessage(e))))]
    /\ page' = PageAfterSend(req[r].tabOk, page,
                   ErrorMessage(CatchMessageType, catchErrorMessage(e)))
    /\ req' = [req EXCEPT ![r].pc = "errorSent",
                          ![r].errorMessage = catchErrorMessage(e),
                          ![r].remote = remote,
                          ![r].sent = sendMessageToContent(req[r].tabOk, page)]

\* ai.summarizeText settles: a blank summary sends SUMMARY_EMPTY, another
\* summary sends SUMMARY_COMPLETE, an exception runs the catch block
RemoteSettles(r, outcome) ==
    /\ req[r].pc = "requesting"
    /\ LET res == generateContent(outcome)
       IN IF res.ok
          THEN IF res.value = <<>> \/ TrimIsEmpty(res.value)
               THEN /\ events' = [events EXCEPT ![r] =
                          Append(@, Sent(r, ErrorMessage("SUMMARY_EMPTY",
                                                         MSG_SUMMARY_EMPTY)))]
                    /\ page' = PageAfterSend(req[r].tabOk, page,
                          ErrorMessage("SUMMARY_EMPTY", MSG_SUMMARY_EMPTY))
                    /\ req' = [req EXCEPT
                          ![r].pc = "emptySent",
                          ![r].summary = res.value,
                          ![r].remote = Some(outcome),
                          ![r].sent = sendMessageToContent(req[r].tabOk, page)]
               ELSE /\ events' = [events EXCEPT ![r] =
                          Append(@, Sent(r, SummaryMessage(res.value,
                                              truncateText(req[r].text))))]
                    /\ page' = PageAfterSend(req[r].tabOk, page,
                          SummaryMessage(res.value, truncateText(req[r].text)))
                    /\ req' = [req EXCEPT
                          ![r].pc = "completeSent",
                          ![r].summary = res.value,
                          ![r].remote = Some(outcome),
                          ![r].sent = sendMessageToContent(req[r].tabOk, page)]
          ELSE CatchBlock(r, res.error, Some(outcome))
    /\ UNCHANGED <<storage, popup, popupRequests, openPopupDefined, now,
                   remoteCalls, writes, shown>>
    /\ UNCHANGED listenerVars

\* after the send of SUMMARY_EMPTY, inside the try block: an exception of
\* showErrorInPopup is caught by the catch block
AfterEmptySend(r) ==
    /\ req[r].pc = "emptySent"
    /\ IF ~NeedsFallback(req[r].sent)
       THEN /\ req' = [req EXCEPT ![r] = Returned(@, "done")]
            /\ UNCHANGED <<storage, popupRequests, now, writes, events, page>>
       ELSE IF openPopupDefined
       THEN /\ CallShowErrorInPopup(r, MSG_SUMMARY_EMPTY)
            /\ req' = [req EXCEPT ![r] = Returned(@, "done")]
            /\ UNCHANGED <<events, page>>
       ELSE /\ CatchBlock(r, OpenPopupTypeError, req[r].remote)
            /\ UNCHANGED <<storage, popupRequests, now, writes>>
    /\ UNCHANGED <<popup, openPopupDefined, remoteCalls, shown>>
    /\ UNCHANGED listenerVars

\* a fallback that stores the whole selection instead of its preview
AfterCompleteSend_StoresWholeText(r) ==
    /\ req[r].pc = "completeSent"
    /\ IF ~NeedsFallback(req[r].sent)
       THEN /\ req' = [req EXCEPT ![r] = Returned(@, "done")]
            /\ UNCHANGED <<storage, popupRequests, now, writes, events, page>>
       ELSE IF openPopupDefined
       THEN /\ CallShowResultInPopup(r, req[r].summary, req[r].text)
            /\ req' = [req EXCEPT ![r] = Returned(@, "done")]
            /\ UNCHANGED <<events, page>>
       ELSE /\ CatchBlock(r, OpenPopupTypeError, req[r].remote)
            /\ UNCHANGED <<storage, popupRequests, now, writes>>
    /\ UNCHANGED <<popup, openPopupDefined, remoteCalls, shown>>
    /\ UNCHANGED listenerVars

\* after the send of SUMMARY_COMPLETE, inside the try block
AfterCompleteSend(r) ==
    /\ req[r].pc = "completeSent"
    /\ IF ~NeedsFallback(req[r].sent)
       THEN /\ req' = [req EXCEPT ![r] = Returned(@, "done")]
            /\ UNCHANGED <<storage, popupRequests, now, writes, events, page>>
       ELSE IF openPopupDefined
       THEN /\ CallShowResultInPopup(r, req[r].summary,
                                     truncateText(req[r].text))
            /\ req' = [req EXCEPT ![r] = Returned(@, "done")]
            /\ UNCHANGED <<events, page>>
       ELSE /\ CatchBlock(r, OpenPopupTypeError, req[r].remote)
            /\ UNCHANGED <<storage, popupRequests, now, writes>>
    /\ UNCHANGED <<popup, openPopupDefined, remoteCalls, shown>>
    /\ UNCHANGED listenerVars

\* after the send of the catch block: an exception of showErrorInPopup
\* escapes summarizeText
AfterErrorSend(r) ==
    /\ req[r].pc = "errorSent"
    /\ IF ~NeedsFallback(req[r].sent)
       THEN /\ req' = [req EXCEPT ![r] = Returned(@, "done")]
            /\ UNCHANGED <<storage, popupRequests, now, writes>>
       ELSE IF openPopupDefined
       THEN /\ CallShowErrorInPopup(r, req[r].errorMessage)
            /\ req' = [req EXCEPT ![r] = Returned(@, "done")]
       ELSE /\ req' = [req EXCEPT ![r] = Returned(@, "rejected")]
            /\ UNCHANGED <<storage, popupRequests, now, writes>>
    /\ UNCHANGED <<page, popup, openPopupDefined, events, remoteCalls, shown>>
    /\ UNCHANGED listenerVars

(***************************************************************************)
(* popup.tsx                                                               *)
(*                                                                         *)
(* status of the popup:                                                    *)
(*   closed    no popup page                                               *)
(*   mounted   IndexPopup mounted, the get calls of useEffect are pending  *)
(*   ready     the get callbacks have run                                  *)
(*   crashed   the second useEffect threw (chrome.action.openPopup is not  *)
(*             exposed): React unmounted the tree, nothing is rendered and *)
(*             state setters have no effect; pending callbacks still run   *)
(*   blank     crashed, and the get callbacks have run                     *)
(***************************************************************************)
\* IndexPopup mounts: useState initial values, then the two effects
Mount(cause) ==
    [status |-> IF openPopupDefined THEN "mounted" ELSE "crashed",
     apiKey |-> "", popupResult |-> None, popupError |-> None,
     got |-> storage, cause |-> cause]

\* the user opens the popup from the toolbar
\* (pending chrome.action.openPopup() calls fail once a popup is open)
UserOpensPopup ==
    /\ popup.status = "closed"
    /\ popup' = Mount(None)
    /\ popupRequests' = {}
    /\ UNCHANGED <<storage, req, page, openPopupDefined, now, events,
                   remoteCalls, writes, shown>>
    /\ UNCHANGED listenerVars

\* the browser opens the popup for the chrome.action.openPopup() of r
BrowserOpensPopup(r) ==
    /\ r \in popupRequests
    /\ popup.status = "closed"
    /\ popup' = Mount(Some(r))
    /\ popupRequests' = {}
    /\ UNCHANGED <<storage, req, page, openPopupDefined, now, events,
                   remoteCalls, writes, shown>>
    /\ UNCHANGED listenerVars

\* the promise of chrome.action.openPopup() of r rejects (no active window,
\* or a popup is already open); nobody handles the rejection
OpenPopupRejects(r) ==
    /\ r \in popupRequests
    /\ popupRequests' = popupRequests \ {r}
    /\ UNCHANGED <<storage, req, page, popup, openPopupDefined, now, events,
                   remoteCalls, writes, shown>>
    /\ UNCHANGED listenerVars

\* the fallback view IndexPopup renders: the result view has priority over
\* the error view; "none" when neither state is set or nothing is rendered
Rendered(pp) ==
    IF pp.status \notin {"mounted", "ready"} THEN "none"
    ELSE IF IsSome(pp.popupResult) THEN "popupResult"
    ELSE IF IsSome(pp.popupError) THEN "popupError"
    ELSE "none"

\* a callback that removes every key the popup read, the credential too
AfterRemoves_RemovesCredential(st, got) ==
    [st EXCEPT !.popupResult = IF IsSome(got.popupResult) THEN None ELSE @,
               !.popupError = IF IsSome(got.popupError) THEN None ELSE @,
               !.userApiKey = IF IsSome(got.userApiKey) THEN None ELSE @]

\* a callback that displays without removing
AfterRemoves_KeepsSlots(st, got) == st

\* the storage after the removes issued by the callback of the second get
AfterRemoves(st, got) ==
    [st EXCEPT !.popupResult = IF IsSome(got.popupResult) THEN None ELSE @,
               !.popupError = IF IsSome(got.popupError) THEN None ELSE @]

\* the callbacks of the two get calls of the first useEffect
GetCallbacks ==
    /\ popup.status \in {"mounted", "crashed"}
    /\ storage' = AfterRemoves(storage, popup.got)
    /\ popup' =
         IF popup.status = "crashed"
         THEN [popup EXCEPT !.status = "blank"]
         ELSE [popup EXCEPT
                 !.status = "ready",
                 !.apiKey = IF IsSome(popup.got.userApiKey)
                               /\ The(popup.got.userApiKey) # ""
                            THEN The(popup.got.userApiKey) ELSE @,
                 !.popupResult = popup.got.popupResult,
                 !.popupError = IF IsSome(popup.got.popupError)
                                THEN Some(The(popup.got.popupError).message)
                                ELSE None]
    /\ shown' = IF Rendered(popup') = "popupResult"
                THEN Append(shown, [slot |-> "popupResult",
                                    payload |-> The(popup.got.popupResult)])
                ELSE IF Rendered(popup') = "popupError"
                THEN Append(shown, [slot |-> "popupError",
                                    payload |-> The(popup.got.popupError)])
                ELSE shown
    /\ UNCHANGED <<req, page, popupRequests, openPopupDefined, now, events,
                   remoteCalls, writes>>
    /\ UNCHANGED listenerVars

\* the popup is closed (by the user, or by losing focus)
PopupCloses ==
    /\ popup.status # "closed"
    /\ popup' = ClosedPopup
    /\ UNCHANGED <<storage, req, page, popupRequests, openPopupDefined, now,
                   events, remoteCalls, writes, shown>>
    /\ UNCHANGED listenerVars

\* the settings form is rendered only when no fallback view is
settingsVisible ==
    popup.status \in {"mounted", "ready"} /\ Rendered(popup) = "none"

\* onChange of the API key field (after the settings button)
TypeApiKey(k) ==
    /\ settingsVisible
    /\ popup.apiKey # k
    /\ popup' = [popup EXCEPT !.apiKey = k]
    /\ UNCHANGED <<storage, req, page, popupRequests, openPopupDefined, now,
                   events, remoteCalls, writes, shown>>
    /\ UNCHANGED listenerVars

\* IndexPopup.saveApiKey
saveApiKey ==
    /\ settingsVisible
    /\ storage' = [storage EXCEPT !.userApiKey = Some(popup.apiKey)]
    /\ UNCHANGED <<req, page, popup, popupRequests, openPopupDefined, now,
                   events, remoteCalls, writes, shown>>
    /\ UNCHANGED listenerVars

(***************************************************************************)
(* background.ts: the runtime message listener and testApiKey              *)
(*                                                                         *)
(* pc of a received message:                                               *)
(*   readKey     testApiKey awaits chrome.storage.local.get                *)
(*   requesting  testApiKey awaits ai.summarizeText(TEST_PROMPT)           *)
(*   done        sendResponse has been called                              *)
(***************************************************************************)
TEST_API_KEY == "TEST_API_KEY"
TEST_PROMPT == "Hello, world!"
\* CONSTANTS.API.SUMMARIZE_PROMPT, represented by the name of its key
SUMMARIZE_PROMPT == "API.SUMMARIZE_PROMPT"

\* ApiClient.summarizeText: the prompt is SUMMARIZE_PROMPT followed by the
\* text
summarizePrompt(text) == <<SUMMARIZE_PROMPT, text>>

\* a received message: userApiKey is None until the credential read of
\* testApiKey resolves; calls, prompt and remote record the remote call
\* (history)
ReceivedMessage(type, pc) ==
    [type |-> type, pc |-> pc, userApiKey |-> None, calls |-> 0,
     prompt |-> None, remote |-> None]

\* the call sendResponse({status}) for message i
Response(i, status) == [responses EXCEPT ![i] = Append(@, [status |-> status])]

\* a listener without the return after testApiKey().then(sendResponse): the
\* generic reply is sent for TEST_API_KEY too
onMessage_FallsThrough(type) ==
    /\ Len(messages) < MaxMsg
    /\ IF type = TEST_API_KEY
       THEN /\ messages' = Append(messages, ReceivedMessage(type, "readKey"))
            /\ responses' = Append(responses, <<[status |-> "received"]>>)
       ELSE /\ messages' = Append(messages, ReceivedMessage(type, "done"))
            /\ responses' = Append(responses, <<[status |-> "received"]>>)
    /\ UNCHANGED <<storage, req, page, popup, popupRequests, openPopupDefined,
                   now, events, remoteCalls, writes, shown>>

\* chrome.runtime.onMessage listener: TEST_API_KEY starts testApiKey, which
\* runs up to the credential read, and the listener returns true; any other
\* message is answered at once
onMessage(type) ==
    /\ Len(messages) < MaxMsg
    /\ IF type = TEST_API_KEY
       THEN /\ messages' = Append(messages, ReceivedMessage(type, "readKey"))
            /\ responses' = Append(responses, <<>>)
       ELSE /\ messages' = Append(messages, ReceivedMessage(type, "done"))
            /\ responses' = Append(responses, <<[status |-> "received"]>>)
    /\ UNCHANGED <<storage, req, page, popup, popupRequests, openPopupDefined,
                   now, events, remoteCalls, writes, shown>>

\* testApiKey: the credential read rejects inside the try block
TestReadKeyRejects(i) ==
    /\ i \in 1..Len(messages)
    /\ messages[i].pc = "readKey"
    /\ messages' = [messages EXCEPT ![i].pc = "done"]
    /\ responses' = Response(i, "API_KEY_INVALID")
    /\ UNCHANGED <<storage, req, page, popup, popupRequests, openPopupDefined,
                   now, events, remoteCalls, writes, shown>>

\* testApiKey: the credential read resolves; without a key the status is
\* API_KEY_MISSING, with a key the ApiClient is built and the test prompt is
\* sent
TestReadKey(i) ==
    /\ i \in 1..Len(messages)
    /\ messages[i].pc = "readKey"
    /\ IF KeyMissing(storage.userApiKey)
       THEN /\ messages' = [messages EXCEPT
                               ![i].pc = "done",
                               ![i].userApiKey = Some(storage.userApiKey)]
            /\ responses' = Response(i, "API_KEY_MISSING")
       ELSE /\ messages' = [messages EXCEPT
                               ![i].pc = "requesting",
                               ![i].userApiKey = Some(storage.userApiKey),
                               ![i].calls = @ + 1,
                               ![i].prompt = Some(summarizePrompt(TEST_PROMPT))]
            /\ UNCHANGED responses
    /\ UNCHANGED <<storage, req, page, popup, popupRequests, openPopupDefined,
                   now, events, remoteCalls, writes, shown>>

\* a test that takes a quota error for a valid key
testStatus_QuotaIsValid(res) ==
    IF res.ok \/ res.error.code = Some("QUOTA_EXCEEDED")
    THEN "API_KEY_VALID" ELSE "API_KEY_INVALID"

\* testApiKey after ai.summarizeText: API_KEY_VALID when the client
\* returned, API_KEY_INVALID from the catch block when it threw
testStatus(res) == IF res.ok THEN "API_KEY_VALID" ELSE "API_KEY_INVALID"

\* testApiKey: ai.summarizeText settles
TestRemoteSettles(i, outcome) ==
    /\ i \in 1..Len(messages)
    /\ messages[i].pc = "requesting"
    /\ messages' = [messages EXCEPT ![i].pc = "done",
                                    ![i].remote = Some(outcome)]
    /\ responses' = Response(i, testStatus(generateContent(outcome)))
    /\ UNCHANGED <<storage, req, page, popup, popupRequests, openPopupDefined,
                   now, events, remoteCalls, writes, shown>>

\* IndexPopup.testApiKey: the test button of the settings form sends
\* TEST_API_KEY to the background
IndexPopup_testApiKey ==
    /\ settingsVisible
    /\ onMessage(TEST_API_KEY)

\* a message of another type arrives
OtherMessage == onMessage("otherMessage")

(***************************************************************************)
(* Specifications                                                          *)
(*                                                                         *)
(* Spec is the whole system.  SpecOrchestrator and SpecFallback run the    *)
(* same actions on parts of it, so that MaxReq overlapping invocations     *)
(* stay within reach of the model checker:                                 *)
(*  - SpecOrchestrator: the invocations of summarizeText and the page,     *)
(*    with every outcome of the credential read, the sends and             *)
(*    chrome.action.openPopup, and one outcome of the remote call for each *)
(*    branch that follows it; nobody opens the popup;                      *)
(*  - SpecFallback: the invocations and the popup, for a tab that never    *)
(*    has a content script, so that every send fails.                      *)
(* Both take the selection "hello" from a tab with an id.                  *)
(*  - SpecIsolated: the whole system, for a single invocation.             *)
(*  - SpecErrors: a single invocation whose remote call fails in every     *)
(*    way the error taxonomy distinguishes.                                *)
(*  - SpecPreview: a single invocation for selections of the lengths       *)
(*    around the preview length.                                           *)
(*  - SpecListener: the message listener and testApiKey, with the         *)
(*    settings form of the popup.                                          *)
(*  - SpecCredential: everything that reads or writes the storage, for a   *)
(*    single invocation.                                                   *)
(*  - SpecProgress: SpecOrchestrator where every awaited operation of an   *)
(*    invocation settles.                                                  *)
(***************************************************************************)
Next ==
    \/ \E m \in MenuItemIds, t \in SelectionTexts, ok \in BOOLEAN :
           onClicked(m, t, ok)
    \/ \E r \in Requests : ReadKeyRejects(r)
    \/ \E r \in Requests : ReadKey(r)
    \/ \E r \in Requests : AfterMissingSend(r)
    \/ \E r \in Requests, o \in RemoteOutcomes : RemoteSettles(r, o)
    \/ \E r \in Requests : AfterEmptySend(r)
    \/ \E r \in Requests : AfterCompleteSend(r)
    \/ \E r \in Requests : AfterErrorSend(r)
    \/ ContentScriptLoads
    \/ PageUnloads
    \/ ClosePanel
    \/ UserOpensPopup
    \/ \E r \in Requests : BrowserOpensPopup(r)
    \/ \E r \in Requests : OpenPopupRejects(r)
    \/ GetCallbacks
    \/ PopupCloses
    \/ \E k \in ApiKeyInputs : TypeApiKey(k)
    \/ saveApiKey
    \/ IndexPopup_testApiKey
    \/ OtherMessage
    \/ \E i \in 1..MaxMsg : TestReadKeyRejects(i)
    \/ \E i \in 1..MaxMsg : TestReadKey(i)
    \/ \E i \in 1..MaxMsg, o \in RemoteOutcomes : TestRemoteSettles(i, o)

Spec == Init /\ [][Next]_vars

\* the clicks of the two smaller specifications
LeanSelections == {None, Some(Hello)}

\* the outcomes of the remote call of SpecOrchestrator: one for each
\* branch of summarizeText after the call
LeanOutcomes ==
    {RemoteReturns(Some(Blank)), RemoteReturns(Some(SummaryA)),
     RemoteThrows(ErrorObject("Error", RawQuota))}

NextOrchestrator ==
    \/ \E m \in MenuItemIds, t \in LeanSelections : onClicked(m, t, TRUE)
    \/ \E r \in Requests : ReadKeyRejects(r)
    \/ \E r \in Requests : ReadKey(r)
    \/ \E r \in Requests : AfterMissingSend(r)
    \/ \E r \in Requests, o \in LeanOutcomes : RemoteSettles(r, o)
    \/ \E r \in Requests : AfterEmptySend(r)
    \/ \E r \in Requests : AfterCompleteSend(r)
    \/ \E r \in Requests : AfterErrorSend(r)
    \/ ContentScriptLoads
    \/ PageUnloads
    \/ ClosePanel

SpecOrchestrator == Init /\ [][NextOrchestrator]_vars

InitFallback == Init /\ page = NoPage

NextFallback ==
    \/ \E m \in MenuItemIds, t \in LeanSelections : onClicked(m, t, TRUE)
    \/ \E r \in Requests : ReadKeyRejects(r)
    \/ \E r \in Requests : ReadKey(r)
    \/ \E r \in Requests : AfterMissingSend(r)
    \/ \E r \in Requests, o \in RemoteOutcomes : RemoteSettles(r, o)
    \/ \E r \in Requests : AfterEmptySend(r)
    \/ \E r \in Requests : AfterCompleteSend(r)
    \/ \E r \in Requests : AfterErrorSend(r)
    \/ UserOpensPopup
    \/ \E r \in Requests : BrowserOpensPopup(r)
    \/ \E r \in Requests : OpenPopupRejects(r)
    \/ GetCallbacks
    \/ PopupCloses

SpecFallback == InitFallback /\ [][NextFallback]_vars

\* a click while no invocation has been started: the invocation it starts
\* is the only one of the run
onClickedInIsolation(menuItemId, selectionText, tabOk) ==
    /\ \A r \in Requests : req[r].pc = "idle"
    /\ onClicked(menuItemId, selectionText, tabOk)

\* the whole system with a single invocation: every selection, tabs with
\* and without an id, the page, the popup and its settings form
NextIsolated ==
    \/ \E m \in MenuItemIds, t \in SelectionTexts, ok \in BOOLEAN :
           onClickedInIsolation(m, t, ok)
    \/ \E r \in Requests : ReadKeyRejects(r)
    \/ \E r \in Requests : ReadKey(r)
    \/ \E r \in Requests : AfterMissingSend(r)
    \/ \E r \in Requests, o \in RemoteOutcomes : RemoteSettles(r, o)
    \/ \E r \in Requests : AfterEmptySend(r)
    \/ \E r \in Requests : AfterCompleteSend(r)
    \/ \E r \in Requests : AfterErrorSend(r)
    \/ ContentScriptLoads
    \/ PageUnloads
    \/ ClosePanel
    \/ UserOpensPopup
    \/ \E r \in Requests : BrowserOpensPopup(r)
    \/ \E r \in Requests : OpenPopupRejects(r)
    \/ GetCallbacks
    \/ PopupCloses
    \/ \E k \in ApiKeyInputs : TypeApiKey(k)
    \/ saveApiKey

SpecIsolated == Init /\ [][NextIsolated]_vars

\* a single invocation with every outcome of ErrorOutcomes
NextErrors ==
    \/ \E m \in MenuItemIds, t \in LeanSelections :
           onClickedInIsolation(m, t, TRUE)
    \/ \E r \in Requests : ReadKeyRejects(r)
    \/ \E r \in Requests : ReadKey(r)
    \/ \E r \in Requests : AfterMissingSend(r)
    \/ \E r \in Requests, o \in ErrorOutcomes : RemoteSettles(r, o)
    \/ \E r \in Requests : AfterEmptySend(r)
    \/ \E r \in Requests : AfterCompleteSend(r)
    \/ \E r \in Requests : AfterErrorSend(r)
    \/ ContentScriptLoads
    \/ PageUnloads

SpecErrors == Init /\ [][NextErrors]_vars

\* a single invocation for selections of every length of PreviewLengths
NextPreview ==
    \/ \E m \in MenuItemIds, t \in PreviewSelections, ok \in BOOLEAN :
           onClickedInIsolation(m, t, ok)
    \/ \E r \in Requests : ReadKeyRejects(r)
    \/ \E r \in Requests : ReadKey(r)
    \/ \E r \in Requests : AfterMissingSend(r)
    \/ \E r \in Requests, o \in RemoteOutcomes : RemoteSettles(r, o)
    \/ \E r \in Requests : AfterEmptySend(r)
    \/ \E r \in Requests : AfterCompleteSend(r)
    \/ \E r \in Requests : AfterErrorSend(r)
    \/ ContentScriptLoads
    \/ PageUnloads
    \/ ClosePanel

SpecPreview == Init /\ [][NextPreview]_vars

\* the message listener, testApiKey and the settings form of the popup
NextListener ==
    \/ UserOpensPopup
    \/ GetCallbacks
    \/ PopupCloses
    \/ \E k \in ApiKeyInputs : TypeApiKey(k)
    \/ saveApiKey
    \/ IndexPopup_testApiKey
    \/ OtherMessage
    \/ \E i \in 1..MaxMsg : TestReadKeyRejects(i)
    \/ \E i \in 1..MaxMsg : TestReadKey(i)
    \/ \E i \in 1..MaxMsg, o \in RemoteOutcomes : TestRemoteSettles(i, o)

\* overlapping invocations, a page that comes and goes, and the popup: some
\* terminal messages are delivered directly and others fall back to a slot
NextSlots ==
    \/ \E m \in MenuItemIds, t \in LeanSelections : onClicked(m, t, TRUE)
    \/ \E r \in Requests : ReadKeyRejects(r)
    \/ \E r \in Requests : ReadKey(r)
    \/ \E r \in Requests : AfterMissingSend(r)
    \/ \E r \in Requests, o \in LeanOutcomes : RemoteSettles(r, o)
    \/ \E r \in Requests : AfterEmptySend(r)
    \/ \E r \in Requests : AfterCompleteSend(r)
    \/ \E r \in Requests : AfterErrorSend(r)
    \/ ContentScriptLoads
    \/ PageUnloads
    \/ UserOpensPopup
    \/ \E r \in Requests : BrowserOpensPopup(r)
    \/ \E r \in Requests : OpenPopupRejects(r)
    \/ GetCallbacks
    \/ PopupCloses

SpecSlots == Init /\ [][NextSlots]_vars

\* overlapping invocations while the user changes the credential in the
\* settings form of the popup
NextSettings ==
    \/ \E m \in MenuItemIds, t \in LeanSelections : onClicked(m, t, TRUE)
    \/ \E r \in Requests : ReadKeyRejects(r)
    \/ \E r \in Requests : ReadKey(r)
    \/ \E r \in Requests : AfterMissingSend(r)
    \/ \E r \in Requests, o \in LeanOutcomes : RemoteSettles(r, o)
    \/ \E r \in Requests : AfterEmptySend(r)
    \/ \E r \in Requests : AfterCompleteSend(r)
    \/ \E r \in Requests : AfterErrorSend(r)
    \/ UserOpensPopup
    \/ GetCallbacks
    \/ PopupCloses
    \/ \E k \in ApiKeyInputs : TypeApiKey(k)
    \/ saveApiKey

SpecSettings == Init /\ [][NextSettings]_vars

\* the next step of invocation r: the operation it awaits completes or fails
RequestStep(r) ==
    \/ ReadKeyRejects(r)
    \/ ReadKey(r)
    \/ AfterMissingSend(r)
    \/ \E o \in LeanOutcomes : RemoteSettles(r, o)
    \/ AfterEmptySend(r)
    \/ AfterCompleteSend(r)
    \/ AfterErrorSend(r)

\* every operation an invocation awaits (the credential read, the remote
\* call, a send) eventually completes or fails, and the invocation resumes
AwaitsSettle == \A r \in Requests : WF_vars(RequestStep(r))

\* SpecOrchestrator where every awaited operation settles
SpecProgress == Init /\ [][NextOrchestrator]_vars /\ AwaitsSettle

SpecListener == Init /\ [][NextListener]_vars

\* the outcomes of the remote call of SpecCredential: those of
\* SpecOrchestrator and an error whose message repeats the credential
CredentialOutcomes ==
    LeanOutcomes \cup {RemoteThrows(ErrorObject("Error", RawEchoesKey))}

\* the outcomes of the remote call of testApiKey in SpecCredential
TestOutcomes ==
    {RemoteReturns(Some(SummaryA)),
     RemoteThrows(ErrorObject("Error", RawEchoesKey))}

\* everything that reads or writes the storage: a single invocation of
\* summarizeText for a tab whose page stays as it was at the start, the
\* popup with its settings form, the message listener and testApiKey
NextCredential ==
    \/ \E m \in MenuItemIds, t \in LeanSelections :
           onClickedInIsolation(m, t, TRUE)
    \/ \E r \in Requests : ReadKeyRejects(r)
    \/ \E r \in Requests : ReadKey(r)
    \/ \E r \in Requests : AfterMissingSend(r)
    \/ \E r \in Requests, o \in CredentialOutcomes : RemoteSettles(r, o)
    \/ \E r \in Requests : AfterEmptySend(r)
    \/ \E r \in Requests : AfterCompleteSend(r)
    \/ \E r \in Requests : AfterErrorSend(r)
    \/ UserOpensPopup
    \/ \E r \in Requests : BrowserOpensPopup(r)
    \/ \E r \in Requests : OpenPopupRejects(r)
    \/ GetCallbacks
    \/ PopupCloses
    \/ \E k \in ApiKeyInputs : TypeApiKey(k)
    \/ saveApiKey
    \/ IndexPopup_testApiKey
    \/ OtherMessage
    \/ \E i \in 1..MaxMsg : TestReadKeyRejects(i)
    \/ \E i \in 1..MaxMsg : TestReadKey(i)
    \/ \E i \in 1..MaxMsg, o \in TestOutcomes : TestRemoteSettles(i, o)

SpecCredential == Init /\ [][NextCredential]_vars

(***************************************************************************)
(* Properties                                                              *)
(***************************************************************************)
Finished(r) == req[r].pc \in {"done", "rejected"}
Started(r) == req[r].pc # "idle"

\* the types of the messages invocation r passed to sendMessageToContent
EventTypes(r) == [i \in 1..Len(events[r]) |-> events[r][i].msg.type]

\* C1: every invocation of summarizeText sends exactly one loading message
\* and, after it, exactly one terminal message (SUMMARY_COMPLETE,
\* API_KEY_MISSING or SUMMARY_EMPTY): the first message is the loading one,
\* there are never two terminal messages, and an invocation that has ended
\* has sent its terminal message.
C1_OneLoadingThenOneTerminal ==
    \A r \in Requests :
        /\ ~Started(r) => events[r] = <<>>
        /\ Started(r) => /\ Len(events[r]) >= 1
                         /\ EventTypes(r)[1] = "loading"
        /\ \A i \in 2..Len(events[r]) : EventTypes(r)[i] \in TerminalTypes
        /\ Len(events[r]) <= 2
        /\ Finished(r) => Len(events[r]) = 2

\* C2: an invocation that read no credential never calls the remote
\* endpoint, and its messages are the loading message followed by the
\* API_KEY_MISSING failure with the fixed missing-key message; for the
\* selection "hello" the loading message carries "hello" as preview.
C2_NoKeyNoRemoteCall ==
    \A r \in Requests :
        req[r].userApiKey = Some(None) =>
            /\ remoteCalls[r] = 0
            /\ req[r].pc \in {"missingSent", "done", "rejected"}
            /\ Len(events[r]) = 2
            /\ events[r][2].msg =
                   ErrorMessage("API_KEY_MISSING", MSG_API_KEY_MISSING)
            /\ EventTypes(r)[1] = "loading"
            /\ req[r].text = Hello => events[r][1].msg = LoadingMessage(Hello)

\* an invocation for "hello" found no credential and has returned
C2_Witness ==
    \E r \in Requests :
        /\ req[r].userApiKey = Some(None)
        /\ req[r].text = Hello
        /\ req[r].pc = "done"

\* invocation r takes the step that follows a failed send of a terminal
\* message
TakesFallbackStep(r) ==
    /\ req[r].pc \in {"missingSent", "emptySent", "completeSent", "errorSent"}
    /\ ~req[r].sent
    /\ req'[r].pc # req[r].pc

\* the last message invocation r passed to sendMessageToContent
LastMessage(r) == events[r][Len(events[r])].msg

\* C3: when the send of a terminal message has failed, the step that follows
\* writes the payload of that message to the matching slot (popupResult for
\* SUMMARY_COMPLETE, popupError for a failure), leaves the other slot
\* unchanged, sends nothing more to the page, and the invocation returns
\* without an exception.
C3_FailedSendFallsBackToMatchingSlot ==
    [][\A r \in Requests :
          TakesFallbackStep(r) =>
              /\ IF LastMessage(r).type = "SUMMARY_COMPLETE"
                 THEN /\ storage'.popupResult =
                            Some(ResultPayload(LastMessage(r).summary,
                                               LastMessage(r).originalText,
                                               now))
                      /\ storage'.popupError = storage.popupError
                 ELSE /\ storage'.popupError =
                            Some(ErrorPayload(LastMessage(r).message, now))
                      /\ storage'.popupResult = storage.popupResult
              /\ events' = events
              /\ page' = page
              /\ req'[r].pc = "done"]_vars

\* the terminal messages of the single invocation the page received
PageShown ==
    {i \in 2..Len(events[1]) : events[1][i].delivered}

\* a payload of the single invocation waits for the popup: it is in a slot
Pending ==
    \E i \in 1..Len(writes) :
        \/ storage.popupResult = Some(writes[i].payload)
        \/ storage.popupError = Some(writes[i].payload)

\* C4: the terminal outcome of a single invocation (run in isolation, both
\* slots empty at the start) is shown exactly once: the deliveries to the
\* page and the displays of the popup together never exceed one, and once
\* the invocation has ended the outcome has been shown or still waits in
\* its slot for the popup.
C4_ShownExactlyOnce ==
    /\ Cardinality(PageShown) + Len(shown) <= 1
    /\ Finished(1) =>
           \/ Cardinality(PageShown) + Len(shown) = 1
           \/ Pending

\* C5: an invocation whose last send failed has written the payload and
\* requested the popup by the time it ends, and once the popup opened by the
\* request of invocation r has read the storage, what it displays is a
\* payload written by r.
C5_PopupOpenedByRequestShowsItsPayload ==
    /\ \A r \in Requests :
           (/\ Finished(r)
            /\ Len(events[r]) >= 2
            /\ ~events[r][Len(events[r])].delivered) =>
               \E i \in 1..Len(writes) : writes[i].by = r
    /\ \A r \in Requests :
           (popup.cause = Some(r) /\ popup.status = "ready") =>
               /\ Len(shown) >= 1
               /\ \E i \in 1..Len(writes) :
                      /\ writes[i].by = r
                      /\ writes[i].payload = shown[Len(shown)].payload

Slots == {"popupResult", "popupError"}

\* C6: reading a slot clears it.  No payload is displayed twice; once the
\* callbacks of a popup have run, a payload the popup read is no longer in
\* its slot; and a payload that has been displayed is never again in a slot
\* nor read by a later popup.
C6_ReadClearsSlot ==
    /\ \A i, j \in 1..Len(shown) : i # j => shown[i] # shown[j]
    /\ popup.status \in {"ready", "blank"} =>
           \A k \in Slots :
               IsSome(popup.got[k]) => storage[k] # popup.got[k]
    /\ \A i \in 1..Len(shown) :
           /\ storage[shown[i].slot] # Some(shown[i].payload)
           /\ popup.status = "mounted" =>
                  popup.got[shown[i].slot] # Some(shown[i].payload)

\* one payload was written and displayed, and a later popup has read both
\* slots and found nothing to display
C6_Witness ==
    /\ Len(writes) = 1
    /\ Len(shown) = 1
    /\ popup.status = "ready"
    /\ popup.got.popupResult = None
    /\ popup.got.popupError = None
    /\ Rendered(popup) = "none"

\* C7: a write that lands in a slot between the read and the delete of the
\* popup is not lost: when the callbacks of the popup run and a slot holds a
\* payload other than the one the popup read from it, that payload is still
\* in the slot afterwards.
C7_WriteBetweenReadAndDeleteSurvives ==
    [][(popup.status = "mounted" /\ popup'.status = "ready") =>
          \A k \in Slots :
              (/\ IsSome(popup.got[k])
               /\ IsSome(storage[k])
               /\ storage[k] # popup.got[k]) =>
                  storage'[k] = storage[k]]_vars

\* C8: while an invocation is past a successful return of the client, a
\* summary made of whitespace only has produced, as the terminal message, the
\* SUMMARY_EMPTY failure with the fixed empty-summary message and no
\* SUMMARY_COMPLETE; and every SUMMARY_COMPLETE message ever sent carries a
\* summary with at least one character that is not whitespace.
C8_WhitespaceSummaryIsEmpty ==
    \A r \in Requests :
        /\ (/\ IsSome(req[r].remote)
            /\ The(req[r].remote).kind = "returns"
            /\ IsSome(The(req[r].remote).text)
            /\ The(The(req[r].remote).text) # <<>>
            /\ \A i \in 1..Len(The(The(req[r].remote).text)) :
                   The(The(req[r].remote).text)[i] \in {" ", "\t", "\n"}) =>
               /\ Len(events[r]) >= 2
               /\ events[r][2].msg =
                      ErrorMessage("SUMMARY_EMPTY", MSG_SUMMARY_EMPTY)
               /\ \A i \in 1..Len(events[r]) :
                      EventTypes(r)[i] # "SUMMARY_COMPLETE"
        /\ \A i \in 1..Len(events[r]) :
               EventTypes(r)[i] = "SUMMARY_COMPLETE" =>
                   \E j \in 1..Len(events[r][i].msg.summary) :
                       events[r][i].msg.summary[j] \notin {" ", "\t", "\n"}

\* the remote call of an invocation returned two spaces and the invocation
\* has sent its terminal message
C8_Witness ==
    \E r \in Requests :
        /\ req[r].remote = Some(RemoteReturns(Some(Blank)))
        /\ req[r].pc = "emptySent"

\* C9 as stated: whenever the remote call returned a blank text, empty or
\* whitespace only, the client returned it and the terminal message is the
\* SUMMARY_EMPTY failure with the fixed empty-summary message.
C9_BlankResultIsNoClientError ==
    \A r \in Requests :
        (/\ IsSome(req[r].remote)
         /\ The(req[r].remote).kind = "returns"
         /\ IsSome(The(req[r].remote).text)
         /\ \A i \in 1..Len(The(The(req[r].remote).text)) :
                The(The(req[r].remote).text)[i] \in {" ", "\t", "\n"}) =>
            /\ Len(events[r]) >= 2
            /\ events[r][2].msg =
                   ErrorMessage("SUMMARY_EMPTY", MSG_SUMMARY_EMPTY)

\* C9 amended: the client returns a text of whitespace only as a success
\* and the terminal message is then the SUMMARY_EMPTY failure with the fixed
\* empty-summary message; for the empty text (and for a missing text) the
\* client throws, the catch block runs, and the terminal message is the
\* SUMMARY_EMPTY failure with the generic API-error message.
C9_EmptyTextIsClientError ==
    \A r \in Requests :
        (IsSome(req[r].remote) /\ The(req[r].remote).kind = "returns") =>
            LET text == The(req[r].remote).text
            IN /\ (/\ IsSome(text)
                    /\ The(text) # <<>>
                    /\ \A i \in 1..Len(The(text)) :
                           The(text)[i] \in {" ", "\t", "\n"}) =>
                       /\ Len(events[r]) >= 2
                       /\ events[r][2].msg =
                              ErrorMessage("SUMMARY_EMPTY", MSG_SUMMARY_EMPTY)
                       /\ req[r].pc = "emptySent" => req[r].summary = The(text)
               /\ (text = None \/ The(text) = <<>>) =>
                       /\ req[r].pc = "errorSent"
                       /\ Len(events[r]) = 2
                       /\ events[r][2].msg =
                              ErrorMessage("SUMMARY_EMPTY", MSG_API_ERROR)

\* the remote call returned the empty text and the failure was sent
C9_Witness ==
    \E r \in Requests :
        /\ req[r].remote = Some(RemoteReturns(Some(<<>>)))
        /\ req[r].pc = "errorSent"

\* C10: no exception escapes summarizeText: whatever step fails, the
\* promise of an invocation is never rejected.
C10_NoExceptionEscapes ==
    \A r \in Requests : req[r].pc # "rejected"

\* the fixed message the taxonomy assigns to a raw message
MessageForRaw(raw) ==
    IF Includes(raw, KW_API_KEY_INVALID) THEN MSG_API_KEY_INVALID
    ELSE IF Includes(raw, KW_QUOTA) THEN MSG_QUOTA_ERROR
    ELSE IF Includes(raw, KW_NETWORK) THEN MSG_NETWORK_ERROR
    ELSE MSG_API_ERROR

C12_FailureTypes ==
    \A r \in Requests :
        LET read == req[r].userApiKey
            missing == IsSome(read) /\ (The(read) = None \/ The(read) = <<"">>)
        IN /\ \A i \in 2..Len(events[r]) :
                  \/ EventTypes(r)[i] = "SUMMARY_COMPLETE" /\ ~missing
                  \/ EventTypes(r)[i] = "SUMMARY_EMPTY" /\ ~missing
                  \/ EventTypes(r)[i] = "API_KEY_MISSING" /\ missing
           /\ missing => /\ Len(events[r]) = 2
                          /\ EventTypes(r)[2] = "API_KEY_MISSING"

\* an invocation with a credential failed on a quota error: its failure
\* has type SUMMARY_EMPTY and the quota message
C12_Witness ==
    \E r \in Requests :
        /\ req[r].userApiKey = Some(Some("key1"))
        /\ req[r].pc = "errorSent"
        /\ events[r][2].msg = ErrorMessage("SUMMARY_EMPTY", MSG_QUOTA_ERROR)

\* invocation r has sent message m last, and the send failed
LastSendFailed(r, m) ==
    /\ Len(events[r]) >= 2
    /\ events[r][Len(events[r])].msg = m
    /\ ~events[r][Len(events[r])].delivered

\* C13: a payload in the result slot is {summary, originalText, timestamp}
\* with the summary and the preview text of a SUMMARY_COMPLETE message whose
\* send failed; a payload in the error slot is {message, timestamp} with the
\* message of a failure message whose send failed; the timestamp is a past
\* value of the clock.
C13_SlotHoldsEventPayload ==
    /\ IsSome(storage.popupResult) =>
           LET p == The(storage.popupResult)
           IN /\ DOMAIN p = {"summary", "originalText", "timestamp"}
              /\ p.timestamp < now
              /\ \E r \in Requests :
                     LastSendFailed(r, SummaryMessage(p.summary,
                                                     p.originalText))
    /\ IsSome(storage.popupError) =>
           LET p == The(storage.popupError)
           IN /\ DOMAIN p = {"message", "timestamp"}
              /\ p.timestamp < now
              /\ \E r \in Requests, t \in {"API_KEY_MISSING", "SUMMARY_EMPTY"} :
                     LastSendFailed(r, ErrorMessage(t, p.message))
    /\ \A i \in 1..Len(writes) :
           LET w == writes[i]
               m == LastMessage(w.by)
           IN /\ ~events[w.by][Len(events[w.by])].delivered
              /\ IF m.type = "SUMMARY_COMPLETE"
                 THEN /\ w.slot = "popupResult"
                      /\ w.payload.summary = m.summary
                      /\ w.payload.originalText = m.originalText
                      /\ m.originalText = truncateText(req[w.by].text)
                 ELSE /\ w.slot = "popupError"
                      /\ w.payload.message = m.message

\* the result slot holds the summary and the truncated preview of a
\* selection longer than the preview length
C13_Witness ==
    /\ IsSome(storage.popupResult)
    /\ The(storage.popupResult).summary = SummaryA
    /\ Len(The(storage.popupResult).originalText) = MAX_PREVIEW_LENGTH + 3
    /\ \E r \in Requests : req[r].text = LongText /\ req[r].pc = "done"

\* invocation r takes the step that follows a successful send of a
\* terminal message
TakesStepAfterDelivery(r) ==
    /\ req[r].pc \in {"missingSent", "emptySent", "completeSent", "errorSent"}
    /\ req[r].sent
    /\ req'[r].pc # req[r].pc

\* C14: sendMessageToContent returned true exactly for the sends that
\* reached the page; a send that reaches the page (loading included) writes
\* no slot and requests no popup, and after such a send of a terminal
\* message the invocation returns and nothing else happens: no slot is
\* written or changed, the popup is not requested, nothing more is sent.
C14_DeliveredSendHasNoOtherEffect ==
    [][\A r \in Requests :
          /\ req[r].pc \in {"missingSent", "emptySent", "completeSent",
                             "errorSent"} =>
                 req[r].sent = events[r][Len(events[r])].delivered
          /\ (/\ Len(events'[r]) > Len(events[r])
              /\ events'[r][Len(events'[r])].delivered) =>
                 /\ storage' = storage
                 /\ popupRequests' = popupRequests
                 /\ writes' = writes
          /\ TakesStepAfterDelivery(r) =>
                 /\ req'[r].pc = "done"
                 /\ storage' = storage
                 /\ popupRequests' = popupRequests
                 /\ writes' = writes
                 /\ events' = events
                 /\ page' = page]_vars

\* an invocation has returned after its terminal message reached the page,
\* and no slot was ever written
C14_Witness ==
    \E r \in Requests :
        /\ req[r].pc = "done"
        /\ Len(events[r]) = 2
        /\ events[r][2].delivered
        /\ writes = <<>>
        /\ popupRequests = {}

\* C15: a loading message that does not reach the page is dropped: the
\* step that sends it writes no slot, requests no popup and leaves the
\* invocation waiting for the credential read; while only the undelivered
\* loading message has been sent the invocation is at the credential read
\* or past it, and nothing of what it does later depends on that send: the
\* page is unchanged by it.
C15_LoadingFailureIsDropped ==
    [][\A r \in Requests :
          /\ (/\ req[r].pc = "idle"
              /\ req'[r].pc # "idle"
              /\ ~events'[r][1].delivered) =>
                 /\ req'[r].pc = "readKey"
                 /\ Len(events'[r]) = 1
                 /\ events'[r][1].msg.type = "loading"
                 /\ storage' = storage
                 /\ popupRequests' = popupRequests
                 /\ writes' = writes
                 /\ page' = page
          /\ (/\ req[r].pc = "readKey"
              /\ ~events[r][1].delivered
              /\ req'[r].pc # "readKey") =>
                 \/ req'[r].pc = "requesting" /\ remoteCalls'[r] = 1
                 \/ req'[r].pc = "missingSent" /\ Len(events'[r]) = 2
                 \/ req'[r].pc = "rejected"]_vars

\* an invocation whose loading message did not reach the page has sent
\* its terminal message and returned
C15_Witness ==
    \E r \in Requests :
        /\ req[r].pc = "done"
        /\ Len(events[r]) = 2
        /\ ~events[r][1].delivered
        /\ events[r][2].msg.type \in TerminalTypes

\* C16: at every call of sendMessageToContent, chrome.tabs.sendMessage is
\* called exactly when the tab has an id; the value returned is true exactly
\* when it was called and the page received the message (the page then
\* handles it, and is untouched otherwise); and the call never throws: the
\* invocation goes on with the boolean it got.
C16_SendReturnsDelivery ==
    [][\A r \in Requests :
          Len(events'[r]) > Len(events[r]) =>
              LET e == events'[r][Len(events'[r])]
              IN /\ e.attempted = req'[r].tabOk
                 /\ e.delivered = (e.attempted /\ page.loaded)
                 /\ page' = IF e.delivered THEN handleMessage(page, e.msg)
                            ELSE page
                 /\ req'[r].sent = e.delivered
                 /\ req'[r].pc \in {"readKey", "missingSent", "emptySent",
                                     "completeSent", "errorSent"}]_vars

\* an invocation for a tab without an id has returned while the page was
\* loaded: its terminal message was not sent at all
C16_Witness ==
    \E r \in Requests :
        /\ req[r].pc = "done"
        /\ page.loaded
        /\ ~req[r].tabOk
        /\ Len(events[r]) = 2
        /\ ~events[r][2].attempted
        /\ ~events[r][2].delivered

\* C17: a write replaces whatever its slot held: right after a write the
\* slot holds the payload written and the other slot is unchanged; and at
\* any time a slot is empty or holds one payload, that of the most recent
\* write to it.
C17_LastWriteOccupiesSlot ==
    [][/\ \A k \in Slots :
            IsSome(storage[k]) =>
                \E i \in 1..Len(writes) :
                    /\ writes[i].slot = k
                    /\ writes[i].payload = The(storage[k])
                    /\ \A j \in (i + 1)..Len(writes) : writes[j].slot # k
       /\ Len(writes') > Len(writes) =>
              LET w == writes'[Len(writes')]
              IN /\ Len(writes') = Len(writes) + 1
                 /\ storage'[w.slot] = Some(w.payload)
                 /\ \A k \in Slots \ {w.slot} : storage'[k] = storage[k]
                 /\ storage'.userApiKey = storage.userApiKey]_vars

\* two payloads were written to the error slot, none was read, and the
\* slot holds the second
C17_Witness ==
    /\ Len(writes) = 2
    /\ writes[1].slot = "popupError"
    /\ writes[2].slot = "popupError"
    /\ shown = <<>>
    /\ popup.status = "closed"
    /\ storage.popupError = Some(writes[2].payload)
    /\ writes[1].payload # writes[2].payload

\* the state of a loaded page that displays the terminal message m only
PageShowing(m) ==
    IF m.type = "SUMMARY_COMPLETE"
    THEN [loaded |-> TRUE,
          summaryData |-> Some([summary |-> m.summary,
                                originalText |-> m.originalText]),
          errorMessage |-> None, loadingData |-> None]
    ELSE [loaded |-> TRUE, summaryData |-> None,
          errorMessage |-> Some(m.message), loadingData |-> None]

\* C18: overlapping invocations run independently and the last write wins.
\* A step of one invocation leaves the position, the locals and the
\* messages of the others unchanged; an invocation that has returned has
\* sent a terminal message of its own; when a terminal message reaches the
\* page, the page displays that message and nothing of what it held
\* before; when a payload is written, its slot holds that payload whatever
\* it held before.
C18_LastTerminalWins ==
    [][/\ \A r, q \in Requests :
            (r # q /\ req'[r] # req[r]) =>
                /\ req'[q] = req[q]
                /\ events'[q] = events[q]
                /\ remoteCalls'[q] = remoteCalls[q]
       /\ \A r \in Requests :
            req[r].pc = "done" =>
                /\ Len(events[r]) >= 2
                /\ LastMessage(r).type \in TerminalTypes
       /\ \A r \in Requests :
            (/\ Len(events'[r]) > Len(events[r])
             /\ events'[r][Len(events'[r])].delivered
             /\ events'[r][Len(events'[r])].msg.type \in TerminalTypes) =>
                page' = PageShowing(events'[r][Len(events'[r])].msg)
       /\ \A r \in Requests :
            (TakesFallbackStep(r) /\ Len(writes') > Len(writes)) =>
                /\ writes'[Len(writes')].by = r
                /\ storage'[writes'[Len(writes')].slot] =
                       Some(writes'[Len(writes')].payload)]_vars

\* two invocations are in flight at once, the terminal message of each
\* reached the page, and the page displays the failure of the second
\* instead of the summary of the first
C18_Witness ==
    /\ req[1].pc = "completeSent"
    /\ req[1].sent
    /\ req[2].pc = "errorSent"
    /\ req[2].sent
    /\ page = PageShowing(LastMessage(2))
    /\ page # PageShowing(LastMessage(1))

\* the three states of ContentScript
PageKinds == {"errorMessage", "loadingData", "summaryData"}

\* the state handleMessage sets for a message type, and the panel shown
KindOf(type) ==
    IF type = "SUMMARY_COMPLETE" THEN "result"
    ELSE IF type = "loading" THEN "loading"
    ELSE "error"

C20_PreviewText ==
    \A r \in Requests :
        \A i \in 1..Len(events[r]) :
            events[r][i].msg.type \in {"loading", "SUMMARY_COMPLETE"} =>
                LET text == req[r].text
                    previewText == events[r][i].msg.originalText
                IN IF Len(text) <= 100
                   THEN previewText = text
                   ELSE /\ Len(previewText) = 103
                        /\ \A j \in 1..100 : previewText[j] = text[j]
                        /\ \A j \in 101..103 : previewText[j] = "."

\* a selection of exactly 100 characters was sent whole, with its summary
C20_Witness ==
    \E r \in Requests :
        /\ Len(req[r].text) = 100
        /\ Len(events[r]) = 2
        /\ events[r][2].msg.type = "SUMMARY_COMPLETE"
        /\ events[r][2].msg.originalText = req[r].text

\* C21: truncateText is idempotent: truncating the preview text of a
\* message again gives the same preview text, and for the selection of every
\* invocation (selections of 100, 101 and 103 characters among them)
\* truncateText(truncateText(text)) equals truncateText(text).
C21_TruncateIdempotent ==
    \A r \in Requests :
        /\ Started(r) =>
               truncateText(truncateText(req[r].text)) =
                   truncateText(req[r].text)
        /\ \A i \in 1..Len(events[r]) :
               events[r][i].msg.type \in {"loading", "SUMMARY_COMPLETE"} =>
                   truncateText(events[r][i].msg.originalText) =
                       events[r][i].msg.originalText

\* the preview of a selection of 101 characters was sent: it has 103
\* characters, more than the preview length
C21_Witness ==
    \E r \in Requests :
        /\ Len(req[r].text) = MAX_PREVIEW_LENGTH + 1
        /\ Len(events[r]) >= 1
        /\ Len(events[r][1].msg.originalText) = MAX_PREVIEW_LENGTH + 3

\* C22: a credential test produces exactly one status, one of API_KEY_VALID,
\* API_KEY_INVALID and API_KEY_MISSING, once it has ended and none before:
\* API_KEY_MISSING, without a remote call, when the credential read found no
\* key; API_KEY_VALID when its single remote call, made with the fixed test
\* prompt, returned a text; API_KEY_INVALID when that call threw or returned
\* no text, and when the credential read itself failed.
C22_TestStatus ==
    \A i \in 1..Len(messages) :
        messages[i].type = "TEST_API_KEY" =>
            LET m == messages[i]
                expected ==
                    IF m.userApiKey = None THEN "API_KEY_INVALID"
                    ELSE IF The(m.userApiKey) \in {None, Some("")}
                    THEN "API_KEY_MISSING"
                    ELSE IF /\ The(m.remote).kind = "returns"
                            /\ The(m.remote).text \notin {None, Some(<<>>)}
                    THEN "API_KEY_VALID"
                    ELSE "API_KEY_INVALID"
            IN /\ m.calls <= 1
               /\ m.pc = "requesting" =>
                      /\ m.calls = 1
                      /\ m.prompt = Some(<<"API.SUMMARIZE_PROMPT",
                                           "Hello, world!">>)
               /\ m.pc # "done" => responses[i] = <<>>
               /\ m.pc = "done" =>
                      /\ responses[i] = <<[status |-> expected]>>
                      /\ m.calls = IF expected = "API_KEY_MISSING"
                                      \/ m.userApiKey = None
                                   THEN 0 ELSE 1

\* a test with a stored key ended on a quota error of the remote call and
\* answered API_KEY_INVALID
C22_Witness ==
    \E i \in 1..Len(messages) :
        /\ messages[i].pc = "done"
        /\ messages[i].userApiKey = Some(Some("key1"))
        /\ messages[i].remote =
               Some(RemoteThrows(ErrorObject("Error", RawQuota)))
        /\ responses[i] = <<[status |-> "API_KEY_INVALID"]>>

\* the messages of invocation r that are of one of the given types
EventsOfTypes(r, types) ==
    {i \in 1..Len(events[r]) : events[r][i].msg.type \in types}

\* C23: nothing is retried.  An invocation calls the remote endpoint at most
\* once: exactly once when the credential it read is present, never when it
\* is absent; and it sends each lifecycle event (loading, complete, failed)
\* at most once.
C23_NothingIsRetried ==
    \A r \in Requests :
        /\ remoteCalls[r] <= 1
        /\ IsSome(req[r].userApiKey) =>
               remoteCalls[r] =
                   IF The(req[r].userApiKey) \in {None, Some("")}
                   THEN 0 ELSE 1
        /\ req[r].userApiKey = None => remoteCalls[r] = 0
        /\ Cardinality(EventsOfTypes(r, {"loading"})) <= 1
        /\ Cardinality(EventsOfTypes(r, {"SUMMARY_COMPLETE"})) <= 1
        /\ Cardinality(EventsOfTypes(r, {"API_KEY_MISSING",
                                         "SUMMARY_EMPTY"})) <= 1

\* the non-empty credentials that are stored or were read by an invocation
\* of summarizeText or of testApiKey
Credentials ==
    {k \in ApiKeyInputs \ {""} :
        \/ storage.userApiKey = Some(k)
        \/ \E r \in Requests : req[r].userApiKey = Some(Some(k))
        \/ \E i \in 1..Len(messages) : messages[i].userApiKey = Some(Some(k))}

\* the fixed user-facing messages
FixedMessages ==
    {MSG_API_KEY_MISSING, MSG_SUMMARY_EMPTY, MSG_API_ERROR,
     MSG_API_KEY_INVALID, MSG_QUOTA_ERROR, MSG_NETWORK_ERROR}

\* the lifecycle message m has a field that holds the credential k
MessageCarries(m, k) ==
    IF m.type = "loading"
    THEN \/ DOMAIN m # {"type", "summary", "originalText"}
         \/ m.summary = k
         \/ Includes(m.originalText, CredentialChars(k))
    ELSE IF m.type = "SUMMARY_COMPLETE"
    THEN \/ DOMAIN m # {"type", "summary", "originalText"}
         \/ Includes(m.summary, CredentialChars(k))
         \/ Includes(m.originalText, CredentialChars(k))
    ELSE \/ DOMAIN m # {"type", "message"}
         \/ m.message = k
         \/ m.message \notin FixedMessages

\* C24: the credential goes nowhere but to the API client.  For every
\* credential stored or read, no message passed to the page, no payload in
\* the result slot or the error slot and no response of the message
\* listener has a field that holds it, even when the remote endpoint
\* repeats the credential in its error message: a failure carries one of
\* the fixed messages and a response carries one of the four statuses.
C24_CredentialStaysPrivate ==
    \A k \in Credentials :
        /\ \A r \in Requests :
               \A i \in 1..Len(events[r]) : ~MessageCarries(events[r][i].msg, k)
        /\ IsSome(storage.popupResult) =>
               LET p == The(storage.popupResult)
               IN /\ DOMAIN p = {"summary", "originalText", "timestamp"}
                  /\ ~Includes(p.summary, CredentialChars(k))
                  /\ ~Includes(p.originalText, CredentialChars(k))
        /\ IsSome(storage.popupError) =>
               LET p == The(storage.popupError)
               IN /\ DOMAIN p = {"message", "timestamp"}
                  /\ p.message # k
                  /\ p.message \in FixedMessages
        /\ \A i \in 1..Len(responses) :
               \A j \in 1..Len(responses[i]) :
                   /\ DOMAIN responses[i][j] = {"status"}
                   /\ responses[i][j].status # k
                   /\ responses[i][j].status \in
                          {"API_KEY_VALID", "API_KEY_INVALID",
                           "API_KEY_MISSING", "received"}

\* the remote endpoint repeated the credential in its error message, to an
\* invocation of summarizeText whose failure went to the error slot and to
\* a credential test that has answered
C24_Witness ==
    /\ \E r \in Requests :
           /\ req[r].userApiKey = Some(Some("key1"))
           /\ req[r].pc = "done"
           /\ events[r][2].msg = ErrorMessage("SUMMARY_EMPTY", MSG_API_ERROR)
    /\ IsSome(storage.popupError)
    /\ The(storage.popupError).message = MSG_API_ERROR
    /\ \E i \in 1..Len(messages) :
           /\ messages[i].remote =
                  Some(RemoteThrows(ErrorObject("Error", RawEchoesKey)))
           /\ responses[i] # <<>>

\* C25: the stored credential changes only by the save action of the
\* settings form.  A step that changes the userApiKey key is a save: the
\* settings form is visible, the key receives the text of the API key field,
\* and nothing else changes.  Every step of summarizeText and of testApiKey,
\* every fallback write and every read-and-clear of the popup leaves the key
\* as it was.
C25_OnlySaveChangesCredential ==
    [][/\ storage'.userApiKey # storage.userApiKey =>
              /\ settingsVisible
              /\ storage'.userApiKey = Some(popup.apiKey)
              /\ storage'.popupResult = storage.popupResult
              /\ storage'.popupError = storage.popupError
              /\ req' = req
              /\ messages' = messages
              /\ writes' = writes
              /\ popup' = popup
       /\ (\/ req' # req
           \/ messages' # messages
           \/ writes' # writes
           \/ shown' # shown
           \/ popup.status \in {"mounted", "crashed"}
                  /\ popup'.status \in {"ready", "blank"}) =>
              storage'.userApiKey = storage.userApiKey]_vars

\* an invocation found no credential and its failure was written to the
\* error slot; the popup displayed and cleared it, the user then saved
\* "key1", a credential test read it, and the key is still stored
C25_Witness ==
    /\ \E r \in Requests :
           req[r].userApiKey = Some(None) /\ req[r].pc = "done"
    /\ Len(writes) = 1
    /\ Len(shown) = 1
    /\ storage.popupError = None
    /\ \E i \in 1..Len(messages) :
           /\ messages[i].userApiKey = Some(Some("key1"))
           /\ messages[i].pc = "done"
    /\ storage.userApiKey = Some("key1")

\* C26: whatever the remote call throws, generateContent rejects with an
\* ApiError that has a name and a message: for an Error, its own name and
\* message; for any other value, the name "UnknownError" and the code
\* "UNKNOWN_ERROR".  The orchestrator then reports the failure the ApiError
\* stands for: the generic API-error message for a value that is no Error.
C26_RemoteExceptionIsNormalized ==
    \A r \in Requests :
        (IsSome(req[r].remote) /\ The(req[r].remote).kind = "throws") =>
            LET thrown == The(req[r].remote).error
                res == generateContent(The(req[r].remote))
            IN /\ ~res.ok
               /\ {"name", "message"} \subseteq DOMAIN res.error
               /\ IF thrown.isError
                  THEN /\ res.error.name = thrown.name
                       /\ res.error.message = thrown.message
                  ELSE /\ res.error.name = "UnknownError"
                       /\ res.error.code = Some("UNKNOWN_ERROR")
                       /\ res.error.message # <<>>
                       /\ events[r][2].msg =
                              ErrorMessage("SUMMARY_EMPTY", MSG_API_ERROR)
               /\ req[r].pc = "errorSent"
               /\ req[r].errorMessage = catchErrorMessage(res.error)

\* the remote call threw a value that is not an Error and the failure was
\* sent
C26_Witness ==
    \E r \in Requests :
        /\ req[r].remote = Some(RemoteThrows(NonErrorThrowable))
        /\ req[r].pc = "errorSent"
        /\ Len(events[r]) = 2

\* invocation r has sent a terminal message
TerminalSent(r) == EventsOfTypes(r, TerminalTypes) # {}

\* C27: every invocation that has started eventually sends its terminal
\* message, provided every operation it awaits completes or fails.
C27_StartedReachesTerminal ==
    \A r \in Requests : Started(r) ~> TerminalSent(r)

\* the summaries the invocations have obtained from the client
Summaries ==
    UNION {{events[r][i].msg.summary :
               i \in EventsOfTypes(r, {"SUMMARY_COMPLETE"})} :
           r \in Requests}

\* C28: a summary is displayed and never saved: no key of
\* chrome.storage.local holds the text of a summary.  The userApiKey key
\* holds a credential or nothing, the error slot holds a fixed message, and
\* the result slot never holds a payload with a summary.
C28_SummaryIsNeverStored ==
    /\ storage.userApiKey \in {None} \cup {Some(k) : k \in ApiKeyInputs}
    /\ IsSome(storage.popupError) =>
           The(storage.popupError).message \in FixedMessages
    /\ IsSome(storage.popupResult) =>
           /\ "summary" \notin DOMAIN The(storage.popupResult)
           /\ \A f \in DOMAIN The(storage.popupResult) :
                  The(storage.popupResult)[f] \notin Summaries

\* the payloads invocation r wrote to the error slot
ErrorWritesBy(r) ==
    {i \in 1..Len(writes) : writes[i].by = r /\ writes[i].slot = "popupError"}

\* C29: the catch block of summarizeText reacts to failures of the remote
\* call only.  Once the client has returned (the invocation has sent
\* SUMMARY_COMPLETE, or SUMMARY_EMPTY with the empty-summary message), a
\* failure of the delivery or of the fallback sends no further failure
\* message and writes nothing more to the error slot: after SUMMARY_COMPLETE
\* there is no failure message and no error-slot write of the invocation;
\* after the empty-summary failure there is no second failure message and
\* at most the one error-slot write of its own fallback.
C29_CatchOnlyForRemoteFailures ==
    \A r \in Requests :
        /\ EventsOfTypes(r, {"SUMMARY_COMPLETE"}) # {} =>
               /\ EventsOfTypes(r, {"API_KEY_MISSING", "SUMMARY_EMPTY"}) = {}
               /\ ErrorWritesBy(r) = {}
               /\ req[r].pc # "errorSent"
        /\ (/\ Len(events[r]) >= 2
            /\ events[r][2].msg =
                   ErrorMessage("SUMMARY_EMPTY", MSG_SUMMARY_EMPTY)) =>
               /\ Len(events[r]) = 2
               /\ req[r].pc # "errorSent"
               /\ \A i \in ErrorWritesBy(r) :
                      writes[i].payload.message = MSG_SUMMARY_EMPTY
               /\ Cardinality(ErrorWritesBy(r)) <= 1

\* the preview texts of invocation r: those of its loading and
\* SUMMARY_COMPLETE messages and of the payloads it wrote to the result slot
PreviewTexts(r) ==
    {events[r][i].msg.originalText :
        i \in EventsOfTypes(r, {"loading", "SUMMARY_COMPLETE"})}
    \cup {writes[i].payload.originalText :
             i \in {j \in 1..Len(writes) : /\ writes[j].by = r
                                           /\ writes[j].slot = "popupResult"}}

\* C30: within one invocation the preview text is the same value wherever
\* it appears: the originalText of the loading message, of the
\* SUMMARY_COMPLETE message and of the payload written to the result slot
\* all equal truncateText(text), and the result slot holds that value.
C30_OnePreviewText ==
    /\ \A r \in Requests :
           /\ Cardinality(PreviewTexts(r)) <= 1
           /\ \A t \in PreviewTexts(r) : t = truncateText(req[r].text)
    /\ IsSome(storage.popupResult) =>
           \E r \in Requests :
               The(storage.popupResult).originalText \in PreviewTexts(r)

\* an invocation for a selection longer than the preview length has sent
\* its loading and SUMMARY_COMPLETE messages and written the result slot,
\* which holds the preview of 103 characters
C30_Witness ==
    \E r \in Requests :
        /\ Len(req[r].text) > MAX_PREVIEW_LENGTH
        /\ EventsOfTypes(r, {"SUMMARY_COMPLETE"}) # {}
        /\ \E i \in 1..Len(writes) :
               writes[i].by = r /\ writes[i].slot = "popupResult"
        /\ IsSome(storage.popupResult)
        /\ Len(The(storage.popupResult).originalText) = MAX_PREVIEW_LENGTH + 3

\* C31: the credential is read once per invocation, after the loading event
\* and before the remote call, and the invocation depends only on the value
\* read.  The step that reads it finds exactly the loading event sent and no
\* remote call made, takes the value the storage holds at that moment (so a
\* credential saved before the step is the one used), and branches on it: an
\* absent value sends API_KEY_MISSING and calls nothing, a present one issues
\* the remote call.  Once read the value is never replaced, a step that
\* changes the stored credential changes no invocation, and whatever the
\* storage holds later, an invocation that read an absent value never calls
\* the endpoint and one that read a present value never reports
\* API_KEY_MISSING and calls exactly once.
C31_CredentialReadOncePerRequest ==
    [][\A r \in Requests :
         /\ (req[r].userApiKey = None /\ req'[r].userApiKey # None) =>
               /\ req[r].pc = "readKey"
               /\ Len(events[r]) = 1
               /\ events[r][1].msg.type = "loading"
               /\ remoteCalls[r] = 0
               /\ req'[r].userApiKey = Some(storage.userApiKey)
               /\ IF storage.userApiKey = None \/ The(storage.userApiKey) = ""
                  THEN /\ req'[r].pc = "missingSent"
                       /\ remoteCalls'[r] = 0
                       /\ events'[r][2].msg.type = "API_KEY_MISSING"
                  ELSE /\ req'[r].pc = "requesting"
                       /\ remoteCalls'[r] = 1
                       /\ events'[r] = events[r]
         /\ req[r].userApiKey # None =>
               req'[r].userApiKey = req[r].userApiKey
         /\ storage'.userApiKey # storage.userApiKey =>
               /\ req' = req
               /\ events' = events
               /\ remoteCalls' = remoteCalls
         /\ req'[r].userApiKey # None =>
               LET v == The(req'[r].userApiKey)
               IN IF v = None \/ The(v) = ""
                  THEN /\ remoteCalls'[r] = 0
                       /\ EventsOfTypes(r, {"SUMMARY_COMPLETE",
                                            "SUMMARY_EMPTY"})' = {}
                  ELSE /\ remoteCalls'[r] = 1
                       /\ EventsOfTypes(r, {"API_KEY_MISSING"})' = {}
      ]_vars

\* the first invocation read no credential and reported API_KEY_MISSING, a
\* credential was saved, the second invocation read it and completed, and the
\* stored credential was changed again after that read
C31_Witness ==
    /\ req[1].userApiKey = Some(None)
    /\ EventsOfTypes(1, {"API_KEY_MISSING"}) # {}
    /\ remoteCalls[1] = 0
    /\ req[2].userApiKey = Some(Some("key1"))
    /\ EventsOfTypes(2, {"SUMMARY_COMPLETE"}) # {}
    /\ remoteCalls[2] = 1
    /\ storage.userApiKey = Some("")

\* the letters the case of which a case-insensitive search ignores
UpperCaseLetters ==
    <<"A", "B", "C", "D", "E", "F", "G", "H", "I", "J", "K", "L", "M", "N", "O",
      "P", "Q", "R", "S", "T", "U", "V", "W", "X", "Y", "Z">>
LowerCaseLetters ==
    <<"a", "b", "c", "d", "e", "f", "g", "h", "i", "j", "k", "l", "m", "n", "o",
      "p", "q", "r", "s", "t", "u", "v", "w", "x", "y", "z">>

\* a string with every upper-case letter replaced by its lower-case letter
toLowerCase(s) ==
    [i \in 1..Len(s) |->
        IF \E j \in 1..Len(UpperCaseLetters) : UpperCaseLetters[j] = s[i]
        THEN LowerCaseLetters[CHOOSE j \in 1..Len(UpperCaseLetters) :
                                  UpperCaseLetters[j] = s[i]]
        ELSE s[i]]

\* a search that does not distinguish upper and lower case
IncludesIgnoringCase(s, keyword) ==
    Includes(toLowerCase(s), toLowerCase(keyword))

\* the error code the documentation of extractErrorCode gives for a message:
\* the keywords are searched without regard to case, the first one found in
\* the order of the list wins, "API key is invalid" (its first example) is
\* an invalid key, and no keyword gives undefined
DocumentedErrorCode(message) ==
    IF IncludesIgnoringCase(message, KW_API_KEY_INVALID)
       \/ message = RawKeyIsInvalid
    THEN Some("API_KEY_INVALID")
    ELSE IF IncludesIgnoringCase(message, KW_QUOTA) THEN Some("QUOTA_EXCEEDED")
    ELSE IF IncludesIgnoringCase(message, KW_NETWORK) THEN Some("NETWORK_ERROR")
    ELSE IF IncludesIgnoringCase(message, KW_TIMEOUT) THEN Some("TIMEOUT_ERROR")
    ELSE None

\* C32: the error code of the ApiError built for an Error thrown by the
\* remote call is the one the documentation of extractErrorCode gives for
\* its message: keywords are matched without regard to case ("Quota
\* exceeded" is QUOTA_EXCEEDED, "API key is invalid" is API_KEY_INVALID), the
\* first match in the order API_KEY_INVALID, quota, network, timeout wins,
\* and a message without a keyword has no code.
C32_ExtractionIgnoresCase ==
    \A r \in Requests :
        (/\ IsSome(req[r].remote)
         /\ The(req[r].remote).kind = "throws"
         /\ The(req[r].remote).error.isError) =>
            generateContent(The(req[r].remote)).error.code =
                DocumentedErrorCode(The(req[r].remote).error.message)

\* C33: a click starts an invocation only when the menu item is the
\* summarize item and the selection text is non-empty, and without such a
\* click nothing happens: every invocation that has left the idle state was
\* started for the summarize item with a non-empty text; for an invocation
\* that was not started no message was sent, no credential was read, the
\* remote endpoint was not called and no slot was written; and a step that
\* starts no invocation and in which no invocation is running changes no
\* message history, no remote call count and no slot write.
C33_OnlyPassingClickStarts ==
    [][/\ \A r \in Requests :
            /\ req'[r].pc # "idle" =>
                  /\ req'[r].menuItemId = CONTEXT_MENU_ID
                  /\ req'[r].text # <<>>
            /\ req'[r].pc = "idle" =>
                  /\ events'[r] = <<>>
                  /\ remoteCalls'[r] = 0
                  /\ req'[r].userApiKey = None
                  /\ \A i \in 1..Len(writes') : writes'[i].by # r
       /\ (\A r \in Requests : req[r].pc = "idle" /\ req'[r].pc = "idle") =>
             /\ events' = events
             /\ remoteCalls' = remoteCalls
             /\ writes' = writes
             /\ storage'.popupResult = storage.popupResult
             /\ storage'.popupError = storage.popupError
      ]_vars

\* a click on the summarize item with the selection "hello" has started an
\* invocation, which has sent its loading message and awaits the credential
C33_Witness ==
    \E r \in Requests :
        /\ req[r].pc = "readKey"
        /\ req[r].menuItemId = CONTEXT_MENU_ID
        /\ req[r].text = Hello
        /\ Len(events[r]) = 1
        /\ remoteCalls[r] = 0

\* the statuses testApiKey returns
TestStatuses == {"API_KEY_MISSING", "API_KEY_VALID", "API_KEY_INVALID"}

\* C34: the message listener answers each message once.  Every message has
\* at most one response, and it has one exactly when its handling is over; a
\* TEST_API_KEY message has none when the listener returns and later gets one
\* carrying a test status, never the generic reply; any other message has the
\* reply {status: "received"} as soon as the listener returns; a response
\* once sent is never changed; and a step of the listener or of testApiKey
\* changes no invocation, no message history, no remote call count of the
\* orchestrator, no slot write and nothing in the storage.
C34_EachMessageAnsweredOnce ==
    [][/\ Len(responses') = Len(messages')
       /\ \A i \in 1..Len(messages') :
             /\ Len(responses'[i]) <= 1
             /\ messages'[i].pc = "done" <=> Len(responses'[i]) = 1
             /\ IF messages'[i].type = TEST_API_KEY
                THEN /\ \A k \in 1..Len(responses'[i]) :
                            responses'[i][k].status \in TestStatuses
                     /\ i > Len(messages) => responses'[i] = <<>>
                ELSE responses'[i] = <<[status |-> "received"]>>
       /\ \A i \in 1..Len(messages) :
             responses[i] # <<>> => responses'[i] = responses[i]
       /\ (messages' # messages \/ responses' # responses) =>
             /\ req' = req
             /\ events' = events
             /\ remoteCalls' = remoteCalls
             /\ writes' = writes
             /\ storage' = storage
      ]_vars

\* a TEST_API_KEY message has been answered with the status of a test that
\* called the endpoint, and another message with the generic reply
C34_Witness ==
    \E i, j \in 1..Len(messages) :
        /\ messages[i].type = TEST_API_KEY
        /\ messages[i].calls = 1
        /\ responses[i] = <<[status |-> "API_KEY_VALID"]>>
        /\ messages[j].type # TEST_API_KEY
        /\ responses[j] = <<[status |-> "received"]>>

\* C35: a popup that found both slots occupied displays every payload it
\* removes.  When the callbacks of such a popup run, each slot they empty
\* held the payload the popup read, and that payload has been displayed.
C35_RemovedPayloadIsShown ==
    [][(/\ popup.status = "mounted"
        /\ popup'.status = "ready"
        /\ IsSome(popup.got.popupResult)
        /\ IsSome(popup.got.popupError)) =>
          \A k \in Slots :
              (/\ storage[k] = popup.got[k]
               /\ storage'[k] = None) =>
                  \E i \in 1..Len(shown') :
                      /\ shown'[i].slot = k
                      /\ shown'[i].payload = The(storage[k])]_vars

\* C36: a slot is cleared only by a popup that read it, and an unread payload
\* waits in its slot until a popup displays it.  A step that empties a slot
\* is the run of the callbacks of a popup that read that slot, it is no step
\* of an invocation, and the payload it removes is displayed; a step of an
\* invocation that writes no fallback (a start, or a return after a direct
\* delivery) leaves the storage unchanged; a slot gets a new payload only by
\* the fallback write of an invocation whose send was not delivered; and the
\* passing of time alone changes no slot.
C36_SlotKeepsUnreadPayload ==
    [][\A k \in Slots :
          /\ (IsSome(storage[k]) /\ storage'[k] = None) =>
                /\ popup.status = "mounted"
                /\ popup'.status = "ready"
                /\ IsSome(popup.got[k])
                /\ req' = req
                /\ \E i \in 1..Len(shown') :
                       /\ shown'[i].slot = k
                       /\ shown'[i].payload = The(storage[k])
          /\ (req' # req /\ writes' = writes) => storage' = storage
          /\ (storage'[k] # storage[k] /\ IsSome(storage'[k])) =>
                /\ Len(writes') = Len(writes) + 1
                /\ writes'[Len(writes')].slot = k
                /\ storage'[k] = Some(writes'[Len(writes')].payload)
                /\ ~req[writes'[Len(writes')].by].sent
          /\ (now' # now /\ writes' = writes) => storage' = storage]_vars

====
